---------------------------- MODULE Spec2Model ----------------------------
(***************************************************************************)
(* Model of the drone simulation engine of DroneMonitoringWeb:             *)
(*   Server/Services/DroneSimulatorService.cs (second revision in the      *)
(*   file, lines 261-635), Server/Program.cs (seeding, zone polygons) and  *)
(*   Server/Data/ApplicationDbContext.cs (durable entities).               *)
(*                                                                         *)
(* Numbers.  Doubles are modelled in fixed point:                          *)
(*   latitude / longitude   1e-5 degree   (53.9006 -> 5390060)             *)
(*   polygon geometry       1e-6 degree offsets from the zone centre       *)
(*   altitude               metres                                         *)
(*   speed                  0.1 m/s                                        *)
(*   heading                whole degrees (floor)                          *)
(*   NextDouble()           per mille, 0..999                              *)
(***************************************************************************)
EXTENDS Integers, Sequences, FiniteSets, TLC

(***************************************************************************)
(* Program constants                                                       *)
(***************************************************************************)
MIN_ACTIVE_DRONES == 5
MAX_ACTIVE_DRONES == 10
SeedFleet == 15
segments == 64
CenterLat == 5390060
CenterLon == 2756150
ArrivalEps == 50
TickDelay == 1
ErrorDelay == 5
SecondsPerHour == 3600
FlushModulus == 10

(***************************************************************************)
(* Bounds of the exploration                                               *)
(***************************************************************************)
\* a fleet smaller than MIN_ACTIVE_DRONES, and one between MIN and MAX
SmallFleet == 4
MidFleet == 6
\* deactivation draws may hit only the first MaxHits drones of the enumeration
MaxHits == 2
\* number of ticks the loop is followed for
MaxTicks == 2
\* first wall-clock second the loop may start its first tick at
FirstSecond == 9
\* largest seed of the mixed streams the Route Generator is run on
MaxRouteSeed == 99
\* motion steps the Motion Integrator is run for
MaxSteps == 2
\* clients that may connect to the hub
MaxConnections == 2
\* hub methods the clients may invoke, all connections together
MaxCalls == 1
\* zone subscriptions and unsubscriptions the clients may make when the
\* group membership is followed
MaxGroupCalls == 3
\* ticks the loop makes while the hub is followed
MaxHubTicks == 1
\* ticks the loop makes while the hub's reads of the store are followed
MaxReadTicks == 2
\* ticks the loop is followed for stage by stage
MaxStageTicks == 2
\* an id that no drone and no zone has
UnknownId == 99
\* drones of the fleet the hub is followed with
HubFleet == 2

(***************************************************************************)
(* Arithmetic helpers (System.Math on fixed-point values)                  *)
(***************************************************************************)
Abs(x) == IF x < 0 THEN -x ELSE x

Min(a, b) == IF a < b THEN a ELSE b

Max(a, b) == IF a > b THEN a ELSE b

\* division truncating toward zero, as a double product rounded to the unit
SDiv(a, b) == IF a >= 0 THEN a \div b ELSE -((-a) \div b)

RECURSIVE SqrtSearch(_, _, _)
SqrtSearch(n, lo, hi) ==
    IF lo >= hi THEN lo
    ELSE LET mid == (lo + hi + 1) \div 2
         IN  IF mid * mid <= n THEN SqrtSearch(n, mid, hi)
                               ELSE SqrtSearch(n, lo, mid - 1)

\* floor(Math.Sqrt(n)) for 0 <= n < 2^31
Sqrt(n) == SqrtSearch(n, 0, 46340)

\* 10000 * sin(d degrees), d = 0..90
SinTable ==
    << 0, 175, 349, 523, 698, 872, 1045, 1219, 1392, 1564, 1736, 1908, 2079,
       2250, 2419, 2588, 2756, 2924, 3090, 3256, 3420, 3584, 3746, 3907, 4067,
       4226, 4384, 4540, 4695, 4848, 5000, 5150, 5299, 5446, 5592, 5736, 5878,
       6018, 6157, 6293, 6428, 6561, 6691, 6820, 6947, 7071, 7193, 7314, 7431,
       7547, 7660, 7771, 7880, 7986, 8090, 8192, 8290, 8387, 8480, 8572, 8660,
       8746, 8829, 8910, 8988, 9063, 9135, 9205, 9272, 9336, 9397, 9455, 9511,
       9563, 9613, 9659, 9703, 9744, 9781, 9816, 9848, 9877, 9903, 9925, 9945,
       9962, 9976, 9986, 9994, 9998, 10000 >>

\* the table continued over the full turn, by the symmetries of the sine
SinTurn ==
    [a \in 0..359 |->
        IF a <= 90 THEN SinTable[a + 1]
        ELSE IF a <= 180 THEN SinTable[180 - a + 1]
        ELSE IF a <= 270 THEN -SinTable[a - 180 + 1]
        ELSE -SinTable[360 - a + 1]]

\* 10000 * Math.Sin(d * PI / 180) for a whole number of degrees d
Sin(d) == SinTurn[d % 360]

\* 10000 * Math.Cos(d * PI / 180) for a whole number of degrees d
Cos(d) == Sin(d + 90)

\* 10000 * Math.Cos(lat * PI / 180) for a latitude in 1e-5 degree, 0..90 deg,
\* interpolated between whole degrees
CosLat(lat) ==
    LET co == 9000000 - lat
        d == co \div 100000
        f == (co % 100000) \div 100
    IN  IF d >= 90 THEN 10000
        ELSE SinTable[d + 1] + ((SinTable[d + 2] - SinTable[d + 1]) * f) \div 1000

RECURSIVE AtanSearch(_, _, _, _)
AtanSearch(lo, hi, x, y) ==
    IF lo >= hi THEN lo
    ELSE LET mid == (lo + hi + 1) \div 2
         IN  IF Cos(mid) * y - Sin(mid) * x >= 0
             THEN AtanSearch(mid, hi, x, y)
             ELSE AtanSearch(lo, mid - 1, x, y)

\* floor of Math.Atan2(y, x) * 180 / PI, in -180..179, (x, y) # (0, 0)
Atan2Signed(y, x) ==
    LET q == IF x > 0 /\ y >= 0 THEN 0
             ELSE IF x <= 0 /\ y > 0 THEN 90
             ELSE IF x < 0 /\ y <= 0 THEN -180
             ELSE -90
    IN  AtanSearch(q, q + 89, x, y)

\* a heading left as Math.Atan2 returns it
Atan2Raw(y, x) == Atan2Signed(y, x)

\* floor of (Math.Atan2(y, x) * 180 / PI + 360) % 360, (x, y) # (0, 0)
Atan2Deg(y, x) == (Atan2Signed(y, x) + 360) % 360

(***************************************************************************)
(* Geometry: Program.cs CreateGeodesicCirclePolygon and NetTopologySuite   *)
(* Polygon.Contains                                                        *)
(***************************************************************************)
\* 100000 * Math.Cos(2 * PI * i / segments), i = 0..63
Cos64 ==
    << 100000, 99518, 98079, 95694, 92388, 88192, 83147, 77301, 70711, 63439,
       55557, 47140, 38268, 29028, 19509, 9802, 0, -9802, -19509, -29028,
       -38268, -47140, -55557, -63439, -70711, -77301, -83147, -88192, -92388,
       -95694, -98079, -99518, -100000, -99518, -98079, -95694, -92388, -88192,
       -83147, -77301, -70711, -63439, -55557, -47140, -38268, -29028, -19509,
       -9802, 0, 9802, 19509, 29028, 38268, 47140, 55557, 63439, 70711, 77301,
       83147, 88192, 92388, 95694, 98079, 99518 >>

\* 100000 * Math.Sin(2 * PI * i / segments): a quarter turn behind the cosine
Sin64(i) == Cos64[((i + 48) % 64) + 1]

\* a polygon drawn with too few metres per degree (a larger circle)
MetersPerDegreeLatShort == 11132 - 132

\* metersPerDegreeLat / 10
MetersPerDegreeLat10 == 11132

\* offsetY / metersPerDegreeLat in 1e-6 degree
LatOffset(radiusMeters, i) == SDiv(radiusMeters * Sin64(i), MetersPerDegreeLat10)

\* offsetX / metersPerDegreeLon in 1e-6 degree,
\* metersPerDegreeLon = metersPerDegreeLat * cos(centerLat)
LonOffset(radiusMeters, i, centerLat) ==
    SDiv(SDiv(radiusMeters * Cos64[i + 1], MetersPerDegreeLat10) * 10000,
         CosLat(centerLat))

\* smallest and largest value of coordinate k (1 = lon, 2 = lat) of a ring
RingMin(ring, k) == CHOOSE m \in {ring[i][k] : i \in 1..segments} :
                        \A i \in 1..segments : m <= ring[i][k]

RingMax(ring, k) == CHOOSE m \in {ring[i][k] : i \in 1..segments} :
                        \A i \in 1..segments : m >= ring[i][k]

\* the polygon: its 64 vertices as <<lon, lat>> offsets (1e-6 degree) from
\* the centre, counter-clockwise (the closing coordinate repeats the first),
\* with the envelope NetTopologySuite keeps with a geometry
CreateGeodesicCirclePolygon(centerLon, centerLat, radiusMeters) ==
    LET ring == [i \in 1..segments |->
                   << LonOffset(radiusMeters, i - 1, centerLat),
                      LatOffset(radiusMeters, i - 1) >>]
    IN  [cLon |-> centerLon, cLat |-> centerLat, ring |-> ring,
         minX |-> RingMin(ring, 1), maxX |-> RingMax(ring, 1),
         minY |-> RingMin(ring, 2), maxY |-> RingMax(ring, 2)]

\* the point, as an offset from the polygon's centre in 1e-6 degree
OffsetOf(poly, lon, lat) == << (lon - poly.cLon) * 10, (lat - poly.cLat) * 10 >>

\* the envelope (bounding box) test NetTopologySuite runs first
InEnvelope(poly, p) ==
    /\ p[1] >= poly.minX
    /\ p[1] <= poly.maxX
    /\ p[2] >= poly.minY
    /\ p[2] <= poly.maxY

\* cross product of edge i (vertex i to its successor) with vertex i -> p
EdgeSide(poly, i, p) ==
    LET a == poly.ring[i]
        b == poly.ring[(i % segments) + 1]
    IN  (b[1] - a[1]) * (p[2] - a[2]) - (b[2] - a[2]) * (p[1] - a[1])

\* zone.Zone.Contains(dronePoint): the point lies in the interior of the
\* polygon (a point on the boundary is not contained)
Contains(poly, lon, lat) ==
    LET p == OffsetOf(poly, lon, lat)
    IN  /\ InEnvelope(poly, p)
        /\ \A i \in 1..segments : EdgeSide(poly, i, p) > 0

(***************************************************************************)
(* The random source (_random).  A stream is named by its seed; draw k of  *)
(* stream s is a fixed function of s and k.  Init and the actions choose   *)
(* the seeds.  Seeds >= 0 name mixed streams, seeds < 0 the streams that   *)
(* repeat one value, which the generator may also return.                  *)
(***************************************************************************)
\* draw k of the scripted stream j: the first draw is the one that makes
\* _random.Next(0, 6) return j % 6, every later draw returns the same value,
\* 0, one half or the largest, by j \div 6
ScriptedDraw(j, k) ==
    IF k = 0 THEN (j % 6) * 167 ELSE Min(999, ((j \div 6) % 3) * 500)

\* _random.NextDouble(), per mille: a stream with a negative seed is scripted
NextDouble(s, k) ==
    IF s < 0 THEN ScriptedDraw(-s - 1, k)
    ELSE ((s + k) * (s + 7 * k + 13)) % 1000

\* _random.Next(lo, hi): lo <= result < hi
NextInt(s, k, lo, hi) == lo + (NextDouble(s, k) * (hi - lo)) \div 1000

(***************************************************************************)
(* Durable store as seeded by Program.cs                                   *)
(***************************************************************************)
\* the Drones table: ids 1..n, every drone seeded "Inactive"
SeedDrones(n, t) ==
    [id \in 1..n |->
        [Frequency |-> IF id % 3 = 0 THEN "5.8 GHz" ELSE "2.4 GHz",
         Status |-> "Inactive",
         LastSeen |-> t]]

\* the CoverageZones table
SeedZones ==
    << [Id |-> 1, Zone |-> CreateGeodesicCirclePolygon(2756180, 5390220, 2500),
        RadiusMeters |-> 2500],
       [Id |-> 2, Zone |-> CreateGeodesicCirclePolygon(2768300, 5393500, 2000),
        RadiusMeters |-> 2000],
       [Id |-> 3, Zone |-> CreateGeodesicCirclePolygon(2760500, 5384550, 3000),
        RadiusMeters |-> 3000] >>

(***************************************************************************)
(* Route Generator: DroneSimulatorService.GenerateRoute                    *)
(* A waypoint is <<lat, lon>>.  s is the random stream, b the index of the *)
(* first draw the call takes.                                              *)
(***************************************************************************)
RoutePatrol(s, b, cLat, cLon) ==
    LET width  == 1000 + 2 * NextDouble(s, b)
        height == 1000 + 2 * NextDouble(s, b + 1)
    IN  << << cLat - height \div 2, cLon - width \div 2 >>,
           << cLat + height \div 2, cLon - width \div 2 >>,
           << cLat + height \div 2, cLon + width \div 2 >>,
           << cLat - height \div 2, cLon + width \div 2 >> >>

RouteCrossing(s, b, cLat, cLon) ==
    LET points == NextInt(s, b, 5, 9)
    IN  [i \in 1..points |->
           LET angle    == (NextDouble(s, b + 2 * i - 1) * 360) \div 1000
               distance == 1000 + 3 * NextDouble(s, b + 2 * i)
           IN  << cLat + SDiv(Sin(angle) * distance, 10000),
                  cLon + SDiv(Cos(angle) * distance, 10000) >>]

RouteCircle(s, b, cLat, cLon) ==
    LET radius    == 1500 + 2 * NextDouble(s, b)
        points    == 12
        clockwise == NextInt(s, b + 1, 0, 2) = 0
    IN  [i \in 1..points |->
           LET step  == IF clockwise THEN i - 1 ELSE points - i
               angle == (step * 360) \div points
           IN  << cLat + SDiv(Sin(angle) * radius, 10000),
                  cLon + SDiv(Cos(angle) * radius, 10000) >>]

RouteEight(s, b, cLat, cLon) ==
    LET radius          == 1000 + NextDouble(s, b)
        pointsPerCircle == 8
        lobe1 == [i \in 1..(pointsPerCircle + 1) |->
                    LET angle == ((i - 1) * 360) \div pointsPerCircle
                    IN  << cLat + SDiv(Sin(angle) * radius, 10000),
                           cLon - radius + SDiv(Cos(angle) * radius, 10000) >>]
        lobe2 == [i \in 1..(pointsPerCircle + 1) |->
                    LET angle == ((i - 1) * 360) \div pointsPerCircle
                    IN  << cLat - SDiv(Sin(angle) * radius, 10000),
                           cLon + radius - SDiv(Cos(angle) * radius, 10000) >>]
    IN  lobe1 \o lobe2

RouteZigzag(s, b, cLat, cLon) ==
    LET width  == 3000 + 2 * NextDouble(s, b)
        height == 3000 + 2 * NextDouble(s, b + 1)
        zigs   == NextInt(s, b + 2, 3, 5)
    IN  [j \in 1..(2 * (zigs + 1)) |->
           LET i == (j - 1) \div 2
           IN  << cLat - height \div 2 + (i * height) \div zigs,
                  IF j % 2 = 1 THEN cLon - width \div 2
                               ELSE cLon + width \div 2 >>]

RECURSIVE RandomWalk(_, _, _, _)
RandomWalk(s, b, n, from) ==
    IF n = 0 THEN << >>
    ELSE LET next == << from[1] + SDiv((NextDouble(s, b) - 500) * 3, 2),
                        from[2] + SDiv((NextDouble(s, b + 1) - 500) * 3, 2) >>
         IN  << next >> \o RandomWalk(s, b + 2, n - 1, next)

RouteWalk(s, b, cLat, cLon) ==
    LET points == NextInt(s, b, 8, 15)
    IN  << << cLat, cLon >> >> \o RandomWalk(s, b + 1, points, << cLat, cLon >>)

\* a switch without its last case
RouteOfTypeFallsThrough(routeType, s, b, cLat, cLon) ==
    CASE routeType = 0 -> RoutePatrol(s, b, cLat, cLon)
      [] routeType = 1 -> RouteCrossing(s, b, cLat, cLon)
      [] routeType = 2 -> RouteCircle(s, b, cLat, cLon)
      [] routeType = 3 -> RouteEight(s, b, cLat, cLon)
      [] routeType = 4 -> RouteZigzag(s, b, cLat, cLon)
      [] OTHER -> << >>

\* the switch over routeType; a value outside 0..5 leaves the route empty
RouteOfType(routeType, s, b, cLat, cLon) ==
    CASE routeType = 0 -> RoutePatrol(s, b, cLat, cLon)
      [] routeType = 1 -> RouteCrossing(s, b, cLat, cLon)
      [] routeType = 2 -> RouteCircle(s, b, cLat, cLon)
      [] routeType = 3 -> RouteEight(s, b, cLat, cLon)
      [] routeType = 4 -> RouteZigzag(s, b, cLat, cLon)
      [] routeType = 5 -> RouteWalk(s, b, cLat, cLon)
      [] OTHER -> << >>

GenerateRoute(centerLat, centerLon, s, b) ==
    LET routeType      == NextInt(s, b, 0, 6)
        routeCenterLat == centerLat + (NextDouble(s, b + 1) - 500) * 5
        routeCenterLon == centerLon + (NextDouble(s, b + 2) - 500) * 5
    IN  RouteOfType(routeType, s, b + 3, routeCenterLat, routeCenterLon)

(***************************************************************************)
(* State                                                                   *)
(***************************************************************************)
VARIABLES
    pc,            \* position of ExecuteAsync: "start", "loop", "delay",
                   \* "backoff" or "stopped"
    stopRequested, \* stoppingToken.IsCancellationRequested
    droneStates,   \* _droneStates: drone id -> DroneState
    order,         \* enumeration order of _droneStates (insertion order)
    cachedZones,   \* _cachedZones
    dbDrones,      \* durable Drones table: id -> row
    dbTelemetry,   \* durable Telemetry table, in insertion order
    dbZones,       \* durable CoverageZones table
    now,           \* wall clock (DateTime.UtcNow), whole seconds
    ticks,         \* number of SimulateAndBroadcast calls made so far
    sent,          \* events pushed to Clients.All by the latest tick, in order
    flushed,       \* what the latest tick did to the store:
                   \* "none", "saved" or "failed"
    moved,         \* drones SimulateDroneMovement ran for in the latest tick
    hitsDrawn,     \* positions (in the enumeration) whose deactivation draw
                   \* _random.Next(DEACTIVATION_CHANCE_INVERSE) was 0 in the
                   \* latest tick
    audience,      \* the latest tick's Clients.All pushes: the connections they
                   \* reached and those they were lost on
    hpc,           \* per connection, where the hub is with it: "absent" (not
                   \* connected yet), the part of OnConnectedAsync to run next
                   \* ("subscribe", "zones", "stats"), "idle"
                   \* (connected, no handler running) or "gone"
                   \* (OnDisconnectedAsync has run)
    online,        \* per connection, whether its transport is open
    memberOf,      \* per connection, the groups it is in
    hubSent,       \* messages sent by the latest hub handler step, in order
    calls,         \* number of hub methods invoked by clients so far
    asked,         \* the last invocation: the caller, the method, its id argument
    locals         \* the lists of the SimulateAndBroadcast call under way:
                   \* updates and telemetryRecords

\* the state of the hub
hubVars == << hpc, online, memberOf, hubSent, calls, asked >>

vars == << pc, stopRequested, droneStates, order, cachedZones, dbDrones,
           dbTelemetry, dbZones, now, ticks, sent, flushed, moved, hitsDrawn,
           audience, hpc, online, memberOf, hubSent, calls, asked, locals >>

\* no SimulateAndBroadcast call is under way
NoLocals == [updates |-> << >>, telemetryRecords |-> << >>]

\* the connections that may be made
Connections == 1..MaxConnections

\* no hub method has been invoked
NoRequest == [c |-> 0, method |-> "none", id |-> 0]

\* no client has connected
NoConnections ==
    /\ audience = [reached |-> {}, lost |-> {}]
    /\ hpc = [c \in Connections |-> "absent"]
    /\ online = [c \in Connections |-> FALSE]
    /\ memberOf = [c \in Connections |-> {}]
    /\ hubSent = << >>
    /\ calls = 0
    /\ asked = NoRequest

\* the connections the hub holds: Clients.All
Held == {c \in Connections : hpc[c] \notin {"absent", "gone"}}

\* a send that fails as a whole when one connection's transport is closed
ListenersAllOrNone == IF \A c \in Held : online[c] THEN Held ELSE {}

\* the connections a send to Clients.All reaches: those the hub holds whose
\* transport is open; the send to a closed one is dropped
Listeners == {c \in Held : online[c]}

\* seeds the random streams are chosen from
InitSeeds == {3}

TickSeeds == {2, 7}

\* fleets the Drones table may hold
FleetSizes == {SmallFleet, MidFleet, SeedFleet}

\* _droneStates.Values.Count(s => s.Status == "Active")
CountActive(states) ==
    Cardinality({id \in DOMAIN states : states[id].Status = "Active"})

(***************************************************************************)
(* DroneSimulatorService.ActivateDrone                                     *)
(***************************************************************************)
ActivateDrone(state, centerLat, centerLon, s, b) ==
    LET route == GenerateRoute(centerLat, centerLon, s, b)
    IN  [state EXCEPT
            !.Status = "Active",
            !.Route = route,
            !.CurrentWaypointIndex = 0,
            !.Latitude = IF Len(route) > 0 THEN route[1][1] ELSE @,
            !.Longitude = IF Len(route) > 0 THEN route[1][2] ELSE @]

(***************************************************************************)
(* DroneSimulatorService.InitializeSimulator                               *)
(***************************************************************************)
\* orders OrderBy(d => _random.Next()) may produce, of which two are followed
Shuffles(n) == { [i \in 1..n |-> i], [i \in 1..n |-> n + 1 - i] }

\* the activation test of InitializeSimulator off by one (i <= MAX)
InitialStateOffByOne(i, s) ==
    LET b == 40 * i
        state == [Latitude |-> CenterLat + (NextDouble(s, b) - 500) * 10,
                  Longitude |-> CenterLon + (NextDouble(s, b + 1) - 500) * 10,
                  Altitude |-> 100 + NextInt(s, b + 2, 50, 200),
                  Speed |-> 100 + (NextDouble(s, b + 3) * 150) \div 1000,
                  Heading |-> NextInt(s, b + 4, 0, 360),
                  Status |-> "Inactive",
                  Route |-> << >>,
                  CurrentWaypointIndex |-> 0]
    IN  IF i <= MAX_ACTIVE_DRONES
        THEN ActivateDrone(state, CenterLat, CenterLon, s, b + 5)
        ELSE state

\* the DroneState built for the drone at position i (from 0) of the shuffle
InitialState(i, s) ==
    LET b == 40 * i
        state == [Latitude |-> CenterLat + (NextDouble(s, b) - 500) * 10,
                  Longitude |-> CenterLon + (NextDouble(s, b + 1) - 500) * 10,
                  Altitude |-> 100 + NextInt(s, b + 2, 50, 200),
                  Speed |-> 100 + (NextDouble(s, b + 3) * 150) \div 1000,
                  Heading |-> NextInt(s, b + 4, 0, 360),
                  Status |-> "Inactive",
                  Route |-> << >>,
                  CurrentWaypointIndex |-> 0]
    IN  IF i < MAX_ACTIVE_DRONES
        THEN ActivateDrone(state, CenterLat, CenterLon, s, b + 5)
        ELSE state

\* position (from 1) of a drone in an order
PositionOf(ord, id) == CHOOSE i \in 1..Len(ord) : ord[i] = id

InitializeSimulator ==
    /\ pc = "start"
    /\ \E s \in InitSeeds, shuffledDrones \in Shuffles(Cardinality(DOMAIN dbDrones)) :
          /\ cachedZones' = dbZones
          /\ order' = shuffledDrones
          /\ droneStates' =
                [id \in DOMAIN dbDrones |->
                    InitialState(PositionOf(shuffledDrones, id) - 1, s)]
    /\ pc' = "loop"
    /\ UNCHANGED << stopRequested, dbDrones, dbTelemetry, dbZones, now, ticks,
                    sent, flushed, moved, hitsDrawn >>
    /\ UNCHANGED << hubVars, audience, locals >>

(***************************************************************************)
(* DroneSimulatorService.ManageActiveDrones                                *)
(***************************************************************************)
\* _droneStates.FirstOrDefault(kvp => kvp.Value.Status == "Inactive"):
\* the position of the first inactive drone of the enumeration, 0 if none
FirstInactive(states, ord) ==
    LET found == {i \in 1..Len(ord) : states[ord[i]].Status = "Inactive"}
    IN  IF found = {} THEN 0
        ELSE CHOOSE i \in found : \A j \in found : i <= j

\* a lifecycle step that activates a drone whenever one is Inactive
ManageActiveDronesEager(states, ord, s) ==
    LET inactiveDrone == FirstInactive(states, ord)
    IN  IF inactiveDrone # 0
        THEN [states EXCEPT ![ord[inactiveDrone]] =
                 ActivateDrone(@, CenterLat, CenterLon, s, 900)]
        ELSE states

ManageActiveDrones(states, ord, s) ==
    LET activeDronesCount == CountActive(states)
        inactiveDrone == FirstInactive(states, ord)
    IN  IF activeDronesCount < MIN_ACTIVE_DRONES /\ inactiveDrone # 0
        THEN [states EXCEPT ![ord[inactiveDrone]] =
                 ActivateDrone(@, CenterLat, CenterLon, s, 900)]
        ELSE states

(***************************************************************************)
(* DroneSimulatorService.SimulateDroneMovement                             *)
(***************************************************************************)
\* 100 * Math.Sqrt(d2) for the squared distance d2
Distance100(d2) == IF d2 < 200000 THEN Sqrt(d2 * 10000) ELSE Sqrt(d2) * 100

\* a deactivation test without the MIN_ACTIVE_DRONES guard
DeactivatesUnguarded(activeCount, hit) == hit

\* the deactivation test made after the move: activeCount counts the drone
\* itself, hit is the outcome of _random.Next(DEACTIVATION_CHANCE_INVERSE) == 0
Deactivates(activeCount, hit) == activeCount > MIN_ACTIVE_DRONES /\ hit

\* an arrival test that misses the drone standing on its target
ArrivedStrict(d2) == 0 < d2 /\ d2 < ArrivalEps * ArrivalEps

\* distance < 0.0005, on the squared distance
Arrived(d2) == d2 < ArrivalEps * ArrivalEps

\* a waypoint index that runs past the end of the route
NextIndexUnwrapped(index, count) == index + 1

\* (state.CurrentWaypointIndex + 1) % state.Route.Count
NextIndex(index, count) == (index + 1) % count

\* the kinematic part of the step (everything before the deactivation test);
\* the draws are b (moveSpeed), b + 1 (altitude), b + 2 (speed) of stream s
MoveStep(state, s, b) ==
    LET target    == state.Route[state.CurrentWaypointIndex + 1]
        deltaLat  == target[1] - state.Latitude
        deltaLon  == target[2] - state.Longitude
        d2        == deltaLat * deltaLat + deltaLon * deltaLon
        distance  == Distance100(d2)
        moveSpeed == 10 + (NextDouble(s, b) * 5) \div 1000
        dAlt      == (NextDouble(s, b + 1) * 10) \div 1000 - 5
        dSpeed    == (NextDouble(s, b + 2) * 30) \div 1000 - 15
    IN  [state EXCEPT
            !.CurrentWaypointIndex =
                IF Arrived(d2)
                THEN NextIndex(@, Len(state.Route)) ELSE @,
            !.Latitude =
                IF d2 > 0 THEN @ + SDiv(deltaLat * moveSpeed * 100, distance)
                          ELSE @,
            !.Longitude =
                IF d2 > 0 THEN @ + SDiv(deltaLon * moveSpeed * 100, distance)
                          ELSE @,
            !.Heading = IF d2 > 0 THEN Atan2Deg(deltaLon, deltaLat) ELSE @,
            !.Altitude = Max(50, Min(500, @ + dAlt)),
            !.Speed = Max(80, Min(250, @ + dSpeed))]

\* the kinematic part of the step as the earlier revision of the service
\* had it: on arrival the target, the deltas and the distance are taken
\* again from the next waypoint before the move
MoveStepRenewed(state, s, b) ==
    LET reached   == state.Route[state.CurrentWaypointIndex + 1]
        arrived   == Arrived((reached[1] - state.Latitude)
                                 * (reached[1] - state.Latitude)
                             + (reached[2] - state.Longitude)
                                 * (reached[2] - state.Longitude))
        index     == IF arrived
                     THEN NextIndex(state.CurrentWaypointIndex, Len(state.Route))
                     ELSE state.CurrentWaypointIndex
        target    == state.Route[index + 1]
        deltaLat  == target[1] - state.Latitude
        deltaLon  == target[2] - state.Longitude
        d2        == deltaLat * deltaLat + deltaLon * deltaLon
        distance  == Distance100(d2)
        moveSpeed == 10 + (NextDouble(s, b) * 5) \div 1000
        dAlt      == (NextDouble(s, b + 1) * 10) \div 1000 - 5
        dSpeed    == (NextDouble(s, b + 2) * 30) \div 1000 - 15
    IN  [state EXCEPT
            !.CurrentWaypointIndex = index,
            !.Latitude =
                IF d2 > 0 THEN @ + SDiv(deltaLat * moveSpeed * 100, distance)
                          ELSE @,
            !.Longitude =
                IF d2 > 0 THEN @ + SDiv(deltaLon * moveSpeed * 100, distance)
                          ELSE @,
            !.Heading = IF d2 > 0 THEN Atan2Deg(deltaLon, deltaLat) ELSE @,
            !.Altitude = Max(50, Min(500, @ + dAlt)),
            !.Speed = Max(80, Min(250, @ + dSpeed))]

\* the whole step on the table: the drone id moves, then may be deactivated
SimulateDroneMovement(states, id, s, b, hit) ==
    IF Len(states[id].Route) = 0 THEN states
    ELSE LET stepped == [states EXCEPT ![id] = MoveStep(@, s, b)]
         IN  IF Deactivates(CountActive(stepped), hit)
             THEN [stepped EXCEPT ![id].Status = "Inactive"]
             ELSE stepped

(***************************************************************************)
(* DroneSimulatorService.BroadcastZoneActivity                             *)
(***************************************************************************)
\* a zone count taken over every drone, whatever its status
AllPositions(states, ord) == 1..Len(ord)

\* positions (in the enumeration) of the drones that are Active
ActivePositions(states, ord) ==
    {i \in 1..Len(ord) : states[ord[i]].Status = "Active"}

\* activeDrones.Count(dronePoint => zone.Zone.Contains(dronePoint))
DronesInZoneCount(states, ord, zone) ==
    Cardinality({i \in ActivePositions(states, ord) :
                    Contains(zone.Zone, states[ord[i]].Longitude,
                                        states[ord[i]].Latitude)})

\* a zone list that keeps the zones without drones (count 0)
RECURSIVE ActiveZonesInfoAll(_, _, _, _)
ActiveZonesInfoAll(states, ord, zones, k) ==
    IF k > Len(zones) THEN << >>
    ELSE << [zoneId |-> zones[k].Id,
             droneCount |-> DronesInZoneCount(states, ord, zones[k])] >>
         \o ActiveZonesInfoAll(states, ord, zones, k + 1)

RECURSIVE ActiveZonesInfo(_, _, _, _)
ActiveZonesInfo(states, ord, zones, k) ==
    IF k > Len(zones) THEN << >>
    ELSE LET dronesInZoneCount == DronesInZoneCount(states, ord, zones[k])
         IN  (IF dronesInZoneCount > 0
              THEN << [zoneId |-> zones[k].Id,
                       droneCount |-> dronesInZoneCount] >>
              ELSE << >>) \o ActiveZonesInfo(states, ord, zones, k + 1)

\* the events the call pushes: none without cached zones, else one
\* ZoneActivityUpdated carrying the list of the zones with drones in them
BroadcastZoneActivity(states, ord, zones) ==
    IF Len(zones) = 0 THEN << >>
    ELSE << [name |-> "ZoneActivityUpdated",
             payload |-> IF ActivePositions(states, ord) # {}
                         THEN ActiveZonesInfo(states, ord, zones, 1)
                         ELSE << >>] >>

(***************************************************************************)
(* DroneSimulatorService.SendStatistics                                    *)
(***************************************************************************)
SendStatistics(states, db) ==
    LET totalDrones  == Cardinality(DOMAIN states)
        activeDrones == CountActive(states)
    IN  [name |-> "DroneStatistics",
         payload |-> [total |-> totalDrones,
                      active |-> activeDrones,
                      inactive |-> totalDrones - activeDrones,
                      byFrequency |->
                         [f \in {db[id].Frequency : id \in DOMAIN db} |->
                             Cardinality({id \in DOMAIN db :
                                             db[id].Frequency = f})]]]

(***************************************************************************)
(* DroneSimulatorService.SimulateAndBroadcast                              *)
(***************************************************************************)
\* a telemetry list that takes a record of every drone
RecordedAlways(status) == TRUE

\* if (state.Status == "Active"), the test made after the movement: the
\* drone gets a telemetry record
Recorded(status) == status = "Active"

\* the foreach over _droneStates from position i on; acc carries the table,
\* the updates and telemetryRecords lists and the set of stepped drones
RECURSIVE SimulateLoop(_, _, _, _, _, _)
SimulateLoop(acc, ord, i, s, hits, t) ==
    IF i > Len(ord) THEN acc
    ELSE LET droneId == ord[i]
             wasActive == acc.states[droneId].Status = "Active"
             states == IF wasActive
                       THEN SimulateDroneMovement(acc.states, droneId, s,
                                                  10 * i, i \in hits)
                       ELSE acc.states
             state == states[droneId]
             update == [id |-> droneId,
                        latitude |-> state.Latitude,
                        longitude |-> state.Longitude,
                        altitude |-> state.Altitude,
                        speed |-> state.Speed,
                        heading |-> state.Heading,
                        status |-> state.Status,
                        timestamp |-> t]
             record == [DroneId |-> droneId,
                        Latitude |-> state.Latitude,
                        Longitude |-> state.Longitude,
                        Altitude |-> state.Altitude,
                        Speed |-> state.Speed,
                        Heading |-> state.Heading,
                        Timestamp |-> t]
         IN  SimulateLoop(
                 [states |-> states,
                  updates |-> Append(acc.updates, update),
                  telemetryRecords |->
                      IF Recorded(state.Status)
                      THEN Append(acc.telemetryRecords, record)
                      ELSE acc.telemetryRecords,
                  moved |-> IF wasActive /\ Len(acc.states[droneId].Route) > 0
                            THEN acc.moved \cup {droneId} ELSE acc.moved],
                 ord, i + 1, s, hits, t)

\* a flush test that does not look at the clock
FlushDueEveryTick(telemetryRecords, t) == Len(telemetryRecords) > 0

\* telemetryRecords.Any() && DateTime.UtcNow.Second % 10 == 0
FlushDue(telemetryRecords, t) ==
    Len(telemetryRecords) > 0 /\ (t % 60) % FlushModulus = 0

\* a flush that touches only the rows of the Active drones
FlushedActiveOnly(db, states, t) ==
    [id \in DOMAIN db |->
        IF id \in DOMAIN states /\ states[id].Status = "Active"
        THEN [db[id] EXCEPT !.Status = states[id].Status, !.LastSeen = t]
        ELSE db[id]]

\* the Drones rows as the flush leaves them in the context:
\* drone.Status = kvp.Value.Status; drone.LastSeen = DateTime.UtcNow
FlushedDrones(db, states, t) ==
    [id \in DOMAIN db |->
        IF id \in DOMAIN states
        THEN [db[id] EXCEPT !.Status = states[id].Status, !.LastSeen = t]
        ELSE db[id]]

\* a save that leaves its changes behind when the write fails
SaveChangesPartial(stored, pending, ok) == pending

\* context.SaveChangesAsync(): the pending changes are committed in one
\* transaction, or, when the write fails, none of them is
SaveChanges(stored, pending, ok) == IF ok THEN pending ELSE stored

\* a loop without the catch block: an exception ends ExecuteAsync
NoCatchTarget(threw) == IF threw THEN "stopped" ELSE "delay"

\* try { SimulateAndBroadcast; Task.Delay(1000) } catch { log; Task.Delay(5000) }:
\* where ExecuteAsync goes on after the call returned or threw
CatchTarget(threw) == IF threw THEN "backoff" ELSE "delay"

\* store: "up", "writeFails" (SaveChangesAsync throws) or "readFails"
\* (the query of SendStatistics throws after the save)
SimulateAndBroadcast(s, hits, store) ==
    LET managed == ManageActiveDrones(droneStates, order, s)
        loop == SimulateLoop([states |-> managed, updates |-> << >>,
                              telemetryRecords |-> << >>, moved |-> {}],
                             order, 1, s, hits, now)
        due == FlushDue(loop.telemetryRecords, now)
        saved == due /\ store # "writeFails"
        threw == due /\ store # "up"
    IN  /\ droneStates' = loop.states
        /\ moved' = loop.moved
        /\ dbTelemetry' = SaveChanges(dbTelemetry,
                                      dbTelemetry \o loop.telemetryRecords,
                                      saved)
        /\ dbDrones' = SaveChanges(dbDrones,
                                   FlushedDrones(dbDrones, loop.states, now),
                                   saved)
        /\ flushed' = IF ~due THEN "none"
                      ELSE IF saved THEN "saved" ELSE "failed"
        /\ sent' = IF threw THEN << >>
                   ELSE (IF due THEN << SendStatistics(loop.states, dbDrones') >>
                                ELSE << >>)
                        \o << [name |-> "DronesUpdated",
                               payload |-> loop.updates] >>
                        \o BroadcastZoneActivity(loop.states, order, cachedZones)
        /\ audience' = IF threw THEN [reached |-> {}, lost |-> {}]
                       ELSE [reached |-> Listeners, lost |-> Held \ Listeners]
        /\ hitsDrawn' = hits
        /\ pc' = CatchTarget(threw)

(***************************************************************************)
(* DroneSimulatorService.ExecuteAsync                                      *)
(***************************************************************************)
\* what the store may do to a tick: nothing when the clock rules a flush out
StoreOutcomes(t) ==
    IF (t % 60) % FlushModulus = 0 THEN {"up", "writeFails", "readFails"}
    ELSE {"up"}

\* a loop that never looks at the token
LoopTestBlind(cancelled) == TRUE

\* while (!stoppingToken.IsCancellationRequested)
LoopTest(cancelled) == ~cancelled

\* one pass of the while body: the loop test, then SimulateAndBroadcast
Tick ==
    /\ pc = "loop"
    /\ LoopTest(stopRequested)
    /\ ticks < MaxTicks
    /\ \E s \in TickSeeds, hits \in SUBSET (1..MaxHits),
          store \in StoreOutcomes(now) :
          SimulateAndBroadcast(s, hits, store)
    /\ ticks' = ticks + 1
    /\ UNCHANGED << stopRequested, order, cachedZones, dbZones, now >>
    /\ UNCHANGED << hubVars, locals >>

\* the loop test finds the token cancelled
ExitLoop ==
    /\ pc = "loop"
    /\ ~LoopTest(stopRequested)
    /\ pc' = "stopped"
    /\ UNCHANGED << stopRequested, droneStates, order, cachedZones, dbDrones,
                    dbTelemetry, dbZones, now, ticks, sent, flushed, moved, hitsDrawn >>
    /\ UNCHANGED << hubVars, audience, locals >>

\* await Task.Delay(1000, stoppingToken) runs to its end
Delay ==
    /\ pc = "delay"
    /\ ~stopRequested
    /\ now' = now + TickDelay
    /\ pc' = "loop"
    /\ UNCHANGED << stopRequested, droneStates, order, cachedZones, dbDrones,
                    dbTelemetry, dbZones, ticks, sent, flushed, moved, hitsDrawn >>
    /\ UNCHANGED << hubVars, audience, locals >>

\* await Task.Delay(5000, stoppingToken) of the catch block runs to its end
Backoff ==
    /\ pc = "backoff"
    /\ ~stopRequested
    /\ now' = now + ErrorDelay
    /\ pc' = "loop"
    /\ UNCHANGED << stopRequested, droneStates, order, cachedZones, dbDrones,
                    dbTelemetry, dbZones, ticks, sent, flushed, moved, hitsDrawn >>
    /\ UNCHANGED << hubVars, audience, locals >>

\* a delay is cancelled: the one of the try block throws into the catch
\* block, whose own delay throws out of ExecuteAsync
DelayCancelled ==
    /\ pc \in {"delay", "backoff"}
    /\ stopRequested
    /\ pc' = "stopped"
    /\ UNCHANGED << stopRequested, droneStates, order, cachedZones, dbDrones,
                    dbTelemetry, dbZones, now, ticks, sent, flushed, moved, hitsDrawn >>
    /\ UNCHANGED << hubVars, audience, locals >>

\* the host raises the shutdown signal
RequestStop ==
    /\ ~stopRequested
    /\ pc # "stopped"
    /\ stopRequested' = TRUE
    /\ UNCHANGED << pc, droneStates, order, cachedZones, dbDrones,
                    dbTelemetry, dbZones, now, ticks, sent, flushed, moved, hitsDrawn >>
    /\ UNCHANGED << hubVars, audience, locals >>

(***************************************************************************)
(* Specification                                                           *)
(***************************************************************************)
\* number of rows of the Drones table
FleetSize == Cardinality(DOMAIN dbDrones)

Init ==
    /\ pc = "start"
    /\ stopRequested = FALSE
    /\ droneStates = << >>
    /\ order = << >>
    /\ cachedZones = << >>
    /\ \E n \in FleetSizes : dbDrones = SeedDrones(n, 0)
    /\ dbTelemetry = << >>
    /\ dbZones \in {<< >>, SeedZones}
    /\ now \in FirstSecond..(FirstSecond + 1)
    /\ ticks = 0
    /\ sent = << >>
    /\ flushed = "none"
    /\ moved = {}
    /\ hitsDrawn = {}
    /\ NoConnections
    /\ locals = NoLocals

Next ==
    \/ InitializeSimulator
    \/ Tick
    \/ ExitLoop
    \/ Delay
    \/ Backoff
    \/ DelayCancelled
    \/ RequestStop

Spec == Init /\ [][Next]_vars

\* the control skeleton of ExecuteAsync: how each of its steps (every step
\* of Next but the host's shutdown signal) moves pc
LoopStep ==
    \/ pc = "start" /\ pc' = "loop"
    \/ pc = "loop" /\ ~stopRequested /\ ticks < MaxTicks
                   /\ pc' \in {"delay", "backoff"}
    \/ pc = "loop" /\ stopRequested /\ pc' = "stopped"
    \/ pc \in {"delay", "backoff"} /\ ~stopRequested /\ pc' = "loop"
    \/ pc \in {"delay", "backoff"} /\ stopRequested /\ pc' = "stopped"

\* the start of the loop over the seeded zones and a fleet of MidFleet drones
FairInit ==
    /\ Init
    /\ FleetSize = MidFleet
    /\ dbZones = SeedZones

\* ExecuteAsync is one sequential task that the host keeps running: its next
\* step is taken as long as it has one; the shutdown signal may never come
FairSpec == FairInit /\ [][Next]_vars /\ WF_pc(LoopStep)

(***************************************************************************)
(* The hub: DroneTrackingHub.  Its queries, as operators on the store.     *)
(***************************************************************************)
\* the projection of a Telemetry row in SendCurrentDroneStates
PointOf(t) ==
    [latitude |-> t.Latitude, longitude |-> t.Longitude,
     altitude |-> t.Altitude, speed |-> t.Speed, heading |-> t.Heading,
     timestamp |-> t.Timestamp]

\* FirstOrDefault() of an empty collection
NoPoint ==
    [latitude |-> 0, longitude |-> 0, altitude |-> 0, speed |-> 0,
     heading |-> 0, timestamp |-> -1]

\* the rows of Telemetry that belong to a drone (d.TelemetryData)
SamplesOf(telemetry, droneId) ==
    {i \in 1..Len(telemetry) : telemetry[i].DroneId = droneId}

\* d.TelemetryData.Select(...).FirstOrDefault(): the query ends in a
\* projection, so the ordered Include above it is not applied and the
\* collection is read in no stated order; any of the drone's rows may come
\* first
CurrentPositions(telemetry, droneId) ==
    IF SamplesOf(telemetry, droneId) = {} THEN {NoPoint}
    ELSE {PointOf(telemetry[i]) : i \in SamplesOf(telemetry, droneId)}

\* the ways to take, for each of the drones 1..n, one of the points the
\* projection may read for it
RECURSIVE PositionPicks(_, _)
PositionPicks(telemetry, n) ==
    IF n = 0 THEN {<< >>}
    ELSE {Append(f, p) : f \in PositionPicks(telemetry, n - 1),
                         p \in CurrentPositions(telemetry, n)}

\* the lists SendCurrentDroneStates may send: one entry per row of Drones
SendCurrentDroneStates(db, telemetry) ==
    LET picks == PositionPicks(telemetry, Cardinality(DOMAIN db))
    IN  {[id \in 1..Cardinality(DOMAIN db) |->
             [id |-> id,
              frequency |-> db[id].Frequency,
              status |-> db[id].Status,
              lastSeen |-> db[id].LastSeen,
              currentPosition |-> f[id]]] : f \in picks}

\* a window that leaves out the sample taken exactly at its start
InWindowStrict(timestamp, startTime) == timestamp > startTime

\* t.Timestamp >= startTime
InWindow(timestamp, startTime) == timestamp >= startTime

\* OrderBy(t => t.Timestamp): a stable sort, by insertion
RECURSIVE InsertByTimestamp(_, _)
InsertByTimestamp(sorted, row) ==
    IF sorted = << >> THEN << row >>
    ELSE IF sorted[Len(sorted)].Timestamp <= row.Timestamp
         THEN Append(sorted, row)
         ELSE Append(InsertByTimestamp(SubSeq(sorted, 1, Len(sorted) - 1), row),
                     sorted[Len(sorted)])

RECURSIVE OrderByTimestamp(_)
OrderByTimestamp(rows) ==
    IF rows = << >> THEN << >>
    ELSE InsertByTimestamp(OrderByTimestamp(SubSeq(rows, 1, Len(rows) - 1)),
                           rows[Len(rows)])

\* the points of GetDroneTrajectory(droneId, hours) at time t
TrajectoryPoints(telemetry, droneId, hours, t) ==
    LET startTime == t - hours * SecondsPerHour
        matches(row) == row.DroneId = droneId
                            /\ InWindow(row.Timestamp, startTime)
        trajectory == OrderByTimestamp(SelectSeq(telemetry, matches))
    IN  [i \in 1..Len(trajectory) |->
            [lat |-> trajectory[i].Latitude, lon |-> trajectory[i].Longitude,
             altitude |-> trajectory[i].Altitude,
             speed |-> trajectory[i].Speed,
             heading |-> trajectory[i].Heading,
             timestamp |-> trajectory[i].Timestamp]]

\* the list of GetCoverageZones
ZoneList(zones) ==
    [i \in 1..Len(zones) |->
        [id |-> zones[i].Id,
         centerLat |-> zones[i].Zone.cLat,
         centerLon |-> zones[i].Zone.cLon,
         radiusMeters |-> zones[i].RadiusMeters]]

\* statistics counted on the simulator's table of live states
HubStatisticsLive(db) ==
    [total |-> Cardinality(DOMAIN db),
     active |-> Cardinality({id \in DOMAIN db :
                               droneStates[id].Status = "Active"}),
     inactive |-> Cardinality({id \in DOMAIN db :
                                 droneStates[id].Status = "Inactive"}),
     byFrequency |->
        [f \in {db[id].Frequency : id \in DOMAIN db} |->
            Cardinality({id \in DOMAIN db : db[id].Frequency = f})]]

\* the statistics of GetDroneStatistics, counted on the Drones table
HubStatistics(db) ==
    [total |-> Cardinality(DOMAIN db),
     active |-> Cardinality({id \in DOMAIN db : db[id].Status = "Active"}),
     inactive |-> Cardinality({id \in DOMAIN db : db[id].Status = "Inactive"}),
     byFrequency |->
        [f \in {db[id].Frequency : id \in DOMAIN db} |->
            Cardinality({id \in DOMAIN db : db[id].Frequency = f})]]

\* the list of ApplyDroneFilters: a filter that is null or empty lets
\* every row pass
FilteredDrones(db, filters) ==
    LET passes(id) ==
            /\ filters.StatusFilter # {} => db[id].Status \in filters.StatusFilter
            /\ filters.FrequencyFilter # {}
                  => db[id].Frequency \in filters.FrequencyFilter
        ids == SelectSeq([i \in 1..Cardinality(DOMAIN db) |-> i], passes)
    IN  [i \in 1..Len(ids) |->
            [id |-> ids[i],
             frequency |-> db[ids[i]].Frequency,
             status |-> db[ids[i]].Status,
             lastSeen |-> db[ids[i]].LastSeen]]

\* the CoverageZones row with a given key, << >> when there is none
\* (FindAsync returns null)
FindZone(zones, zoneId) ==
    SelectSeq(zones, LAMBDA z : z.Id = zoneId)

\* the name of a zone's group
ZoneGroup(zoneId) == << "zone", zoneId >>

\* a handler that stamps the rows it reads
QueriedAndStamped(rows) ==
    [id \in DOMAIN rows |-> [rows[id] EXCEPT !.LastSeen = -1]]

\* the Drones table after a hub handler: the handlers only query the
\* context and never save
QueriedOnly(rows) == rows

(***************************************************************************)
(* The hub's handlers.  c is the calling connection (Context.ConnectionId, *)
(* Clients.Caller); a message is [to, name, payload].                      *)
(***************************************************************************)
\* the group of SubscribeToAllDrones
AllDronesGroup == << "all_drones", 0 >>

\* everything but the hub's own state and the Drones table
simVars == << pc, stopRequested, droneStates, order, cachedZones, dbTelemetry,
              dbZones, now, ticks, sent, flushed, moved, hitsDrawn, audience,
              locals >>

\* what a hub handler leaves of the rest of the program
HubFrame ==
    /\ dbDrones' = QueriedOnly(dbDrones)
    /\ UNCHANGED simVars

SubscribeToAllDrones(c) ==
    /\ memberOf' = [memberOf EXCEPT ![c] = @ \cup {AllDronesGroup}]
    /\ \E drones \in SendCurrentDroneStates(dbDrones, dbTelemetry) :
          hubSent' = << [to |-> c, name |-> "Subscribed",
                         payload |-> [group |-> AllDronesGroup]],
                        [to |-> c, name |-> "InitialDronesState",
                         payload |-> drones] >>

SubscribeToZone(c, zoneId) ==
    LET zone == FindZone(dbZones, zoneId)
    IN  IF zone # << >>
        THEN /\ memberOf' = [memberOf EXCEPT ![c] = @ \cup {ZoneGroup(zoneId)}]
             /\ hubSent' = << [to |-> c, name |-> "Subscribed",
                               payload |-> [group |-> ZoneGroup(zoneId),
                                            zone |-> zone[1].Id,
                                            radius |-> zone[1].RadiusMeters]] >>
        ELSE /\ memberOf' = memberOf
             /\ hubSent' = << >>

UnsubscribeFromZoneEvery(c, zoneId) ==
    /\ memberOf' = [memberOf EXCEPT ![c] = {}]
    /\ hubSent' = << [to |-> c, name |-> "Unsubscribed",
                      payload |-> [group |-> ZoneGroup(zoneId)]] >>

UnsubscribeFromZone(c, zoneId) ==
    /\ memberOf' = [memberOf EXCEPT ![c] = @ \ {ZoneGroup(zoneId)}]
    /\ hubSent' = << [to |-> c, name |-> "Unsubscribed",
                      payload |-> [group |-> ZoneGroup(zoneId)]] >>

GetDroneTrajectory(c, droneId, hours) ==
    /\ hubSent' = << [to |-> c, name |-> "DroneTrajectory",
                      payload |-> [droneId |-> droneId,
                                   points |-> TrajectoryPoints(dbTelemetry,
                                                 droneId, hours, now),
                                   requestedHours |-> hours]] >>
    /\ memberOf' = memberOf

GetCoverageZones(c) ==
    /\ hubSent' = << [to |-> c, name |-> "CoverageZones",
                      payload |-> ZoneList(dbZones)] >>
    /\ memberOf' = memberOf

GetDroneStatistics(c) ==
    /\ hubSent' = << [to |-> c, name |-> "DroneStatistics",
                      payload |-> HubStatistics(dbDrones)] >>
    /\ memberOf' = memberOf

ApplyDroneFilters(c, filters) ==
    /\ hubSent' = << [to |-> c, name |-> "FilteredDrones",
                      payload |-> FilteredDrones(dbDrones, filters)] >>
    /\ memberOf' = memberOf

\* OnConnectedAsync up to its first call: the connection is taken in and
\* greeted
OnConnectedAsync ==
    \E c \in Connections :
        /\ hpc[c] = "absent"
        /\ online' = [online EXCEPT ![c] = TRUE]
        /\ hpc' = [hpc EXCEPT ![c] = "subscribe"]
        /\ hubSent' = << [to |-> c, name |-> "Connected",
                          payload |-> [connectionId |-> c, serverTime |-> now]] >>
        /\ UNCHANGED << memberOf, calls, asked >>
        /\ HubFrame

\* await SubscribeToAllDrones() of OnConnectedAsync
OnConnectedSubscribe ==
    \E c \in Connections :
        /\ hpc[c] = "subscribe"
        /\ SubscribeToAllDrones(c)
        /\ hpc' = [hpc EXCEPT ![c] = "zones"]
        /\ UNCHANGED << online, calls, asked >>
        /\ HubFrame

\* await GetCoverageZones() of OnConnectedAsync
OnConnectedZones ==
    \E c \in Connections :
        /\ hpc[c] = "zones"
        /\ GetCoverageZones(c)
        /\ hpc' = [hpc EXCEPT ![c] = "stats"]
        /\ UNCHANGED << online, calls, asked >>
        /\ HubFrame

\* await GetDroneStatistics() of OnConnectedAsync, which then returns
OnConnectedStatistics ==
    \E c \in Connections :
        /\ hpc[c] = "stats"
        /\ GetDroneStatistics(c)
        /\ hpc' = [hpc EXCEPT ![c] = "idle"]
        /\ UNCHANGED << online, calls, asked >>
        /\ HubFrame

\* the client goes away: its transport closes, whatever the hub is doing
Drop ==
    \E c \in Connections :
        /\ hpc[c] \notin {"absent", "gone"}
        /\ online[c]
        /\ online' = [online EXCEPT ![c] = FALSE]
        /\ UNCHANGED << hpc, memberOf, hubSent, calls, asked, dbDrones >>
        /\ UNCHANGED simVars

\* OnDisconnectedAsync, run once the connection's handlers have returned;
\* the connection leaves the hub and with it its groups
OnDisconnectedAsync ==
    \E c \in Connections :
        /\ hpc[c] = "idle"
        /\ ~online[c]
        /\ hpc' = [hpc EXCEPT ![c] = "gone"]
        /\ memberOf' = [memberOf EXCEPT ![c] = {}]
        /\ hubSent' = << >>
        /\ UNCHANGED << online, calls, asked >>
        /\ HubFrame

\* a connected client may invoke a hub method
Ready(c) == hpc[c] = "idle" /\ online[c] /\ calls < MaxCalls

\* the invocation is counted; the handler leaves the connection as it is
Counted(c, method, id) ==
    /\ calls' = calls + 1
    /\ asked' = [c |-> c, method |-> method, id |-> id]
    /\ UNCHANGED << hpc, online >>
    /\ HubFrame

\* arguments the clients send
ZoneIds == {1, UnknownId}

DroneIds == {1, 2, UnknownId}

HoursAsked == {0, 1}

FilterChoices ==
    { [StatusFilter |-> {}, FrequencyFilter |-> {}],
      [StatusFilter |-> {"Active"}, FrequencyFilter |-> {}],
      [StatusFilter |-> {}, FrequencyFilter |-> {"5.8 GHz"}] }

InvokeSubscribeToAllDrones ==
    \E c \in Connections : Ready(c) /\ SubscribeToAllDrones(c)
                             /\ Counted(c, "SubscribeToAllDrones", 0)

InvokeSubscribeToZone ==
    \E c \in Connections, zoneId \in ZoneIds :
        /\ Ready(c)
        /\ SubscribeToZone(c, zoneId)
        /\ Counted(c, "SubscribeToZone", zoneId)

InvokeUnsubscribeFromZone ==
    \E c \in Connections, zoneId \in ZoneIds :
        /\ Ready(c)
        /\ UnsubscribeFromZone(c, zoneId)
        /\ Counted(c, "UnsubscribeFromZone", zoneId)

InvokeGetDroneTrajectory ==
    \E c \in Connections, droneId \in DroneIds, hours \in HoursAsked :
        /\ Ready(c)
        /\ GetDroneTrajectory(c, droneId, hours)
        /\ Counted(c, "GetDroneTrajectory", droneId)

InvokeGetCoverageZones ==
    \E c \in Connections : Ready(c) /\ GetCoverageZones(c)
                             /\ Counted(c, "GetCoverageZones", 0)

InvokeGetDroneStatistics ==
    \E c \in Connections : Ready(c) /\ GetDroneStatistics(c)
                             /\ Counted(c, "GetDroneStatistics", 0)

InvokeApplyDroneFilters ==
    \E c \in Connections, filters \in FilterChoices :
        /\ Ready(c)
        /\ ApplyDroneFilters(c, filters)
        /\ Counted(c, "ApplyDroneFilters", 0)

(***************************************************************************)
(* The hub beside the tick loop.  The store is the one an earlier run of   *)
(* the service left (Program.cs does not seed a store that has drones):    *)
(* a fleet of HubFleet drones, flushed once, one hour before the loop's    *)
(* first tick.                                                             *)
(***************************************************************************)
\* the second the loop makes its first tick at: a flush second
HubClock == 2 * SecondsPerHour + FlushModulus

\* the Drones rows after the earlier run's flush at t
EarlierDrones(n, t) ==
    [id \in 1..n |-> [SeedDrones(n, 0)[id] EXCEPT !.Status = "Active",
                                                  !.LastSeen = t]]

\* the Telemetry rows of that flush
EarlierRun(n, t) ==
    [i \in 1..n |->
        [DroneId |-> i, Latitude |-> CenterLat + 100 * i,
         Longitude |-> CenterLon - 100 * i, Altitude |-> 120, Speed |-> 150,
         Heading |-> 90, Timestamp |-> t]]

\* the state InitializeSimulator leaves on that store
HubInit ==
    /\ pc = "loop"
    /\ stopRequested = FALSE
    /\ \E s \in InitSeeds :
          droneStates = [id \in 1..HubFleet |-> InitialState(id - 1, s)]
    /\ order = [i \in 1..HubFleet |-> i]
    /\ cachedZones = SeedZones
    /\ dbDrones = EarlierDrones(HubFleet, HubClock - SecondsPerHour)
    /\ dbTelemetry = EarlierRun(HubFleet, HubClock - SecondsPerHour)
    /\ dbZones = SeedZones
    /\ now = HubClock
    /\ ticks = 0
    /\ sent = << >>
    /\ flushed = "none"
    /\ moved = {}
    /\ hitsDrawn = {}
    /\ NoConnections
    /\ locals = NoLocals

\* one pass of the while body, as Tick, with no deactivation draw hitting
HubTick ==
    /\ pc = "loop"
    /\ LoopTest(stopRequested)
    /\ ticks < MaxHubTicks
    /\ \E s \in InitSeeds, store \in StoreOutcomes(now) :
          SimulateAndBroadcast(s, {}, store)
    /\ ticks' = ticks + 1
    /\ UNCHANGED << stopRequested, order, cachedZones, dbZones, now >>
    /\ UNCHANGED << hubVars, locals >>

HubNext ==
    \/ HubTick
    \/ Delay
    \/ Backoff
    \/ OnConnectedAsync
    \/ OnConnectedSubscribe
    \/ OnConnectedZones
    \/ OnConnectedStatistics
    \/ Drop
    \/ OnDisconnectedAsync
    \/ InvokeSubscribeToAllDrones
    \/ InvokeSubscribeToZone
    \/ InvokeUnsubscribeFromZone
    \/ InvokeGetDroneTrajectory
    \/ InvokeGetCoverageZones
    \/ InvokeGetDroneStatistics
    \/ InvokeApplyDroneFilters

HubSpec == HubInit /\ [][HubNext]_vars

(***************************************************************************)
(* The hub's groups on their own: the clients connect, subscribe to zones  *)
(* and unsubscribe from them, again and again, between two ticks of the    *)
(* loop.                                                                   *)
(***************************************************************************)
\* the zone ids the clients ask for: two zones of the table and none
GroupZoneIds == {1, 2, UnknownId}

\* a connected client may invoke a zone method
ReadyForZone(c) == hpc[c] = "idle" /\ online[c] /\ calls < MaxGroupCalls

GroupSubscribeToZone ==
    \E c \in Connections, zoneId \in GroupZoneIds :
        /\ ReadyForZone(c)
        /\ SubscribeToZone(c, zoneId)
        /\ Counted(c, "SubscribeToZone", zoneId)

GroupUnsubscribeFromZone ==
    \E c \in Connections, zoneId \in GroupZoneIds :
        /\ ReadyForZone(c)
        /\ UnsubscribeFromZone(c, zoneId)
        /\ Counted(c, "UnsubscribeFromZone", zoneId)

GroupNext ==
    \/ OnConnectedAsync
    \/ OnConnectedSubscribe
    \/ OnConnectedZones
    \/ OnConnectedStatistics
    \/ Drop
    \/ OnDisconnectedAsync
    \/ GroupSubscribeToZone
    \/ GroupUnsubscribeFromZone

GroupSpec == HubInit /\ [][GroupNext]_vars

(***************************************************************************)
(* The hub's reads of the store beside the loop's flushes.  The store is   *)
(* freshly seeded, the fleet is large enough for a deactivation, and the   *)
(* first tick falls on a flush second.                                     *)
(***************************************************************************)
\* the deactivation draws of a tick: none hits, or the first does
ReadHits == {{}, {1}}

\* the state InitializeSimulator leaves on the seeded store
ReadInit ==
    /\ pc = "loop"
    /\ stopRequested = FALSE
    /\ \E s \in InitSeeds :
          droneStates = [id \in 1..MidFleet |-> InitialState(id - 1, s)]
    /\ order = [i \in 1..MidFleet |-> i]
    /\ cachedZones = SeedZones
    /\ dbDrones = SeedDrones(MidFleet, 0)
    /\ dbTelemetry = << >>
    /\ dbZones = SeedZones
    /\ now = FlushModulus
    /\ ticks = 0
    /\ sent = << >>
    /\ flushed = "none"
    /\ moved = {}
    /\ hitsDrawn = {}
    /\ NoConnections
    /\ locals = NoLocals

\* one pass of the while body, as Tick
ReadTick ==
    /\ pc = "loop"
    /\ LoopTest(stopRequested)
    /\ ticks < MaxReadTicks
    /\ \E s \in InitSeeds, hits \in ReadHits, store \in StoreOutcomes(now) :
          SimulateAndBroadcast(s, hits, store)
    /\ ticks' = ticks + 1
    /\ UNCHANGED << stopRequested, order, cachedZones, dbZones, now >>
    /\ UNCHANGED << hubVars, locals >>

ReadNext ==
    \/ ReadTick
    \/ Delay
    \/ Backoff
    \/ OnConnectedAsync
    \/ OnConnectedSubscribe
    \/ OnConnectedZones
    \/ OnConnectedStatistics
    \/ InvokeGetDroneStatistics
    \/ InvokeApplyDroneFilters

ReadSpec == ReadInit /\ [][ReadNext]_vars

(***************************************************************************)
(* SimulateAndBroadcast stage by stage: the same call as in Tick, with a   *)
(* step for each of its parts, in the order of the method's statements.    *)
(* pc names the part to run next: "foreach", "flush", "push", "zones".     *)
(***************************************************************************)
\* fleets the stages are followed with
StageFleets == {SmallFleet, MidFleet}

\* how long the tick and the delay after it may last together, in seconds:
\* Task.Delay(1000) completes after a second, or later
DelayLengths == {TickDelay, FlushModulus}

\* the store of a first run, or the one an earlier run left after a flush
\* in which every drone was Active
StageInit ==
    /\ pc = "start"
    /\ stopRequested = FALSE
    /\ droneStates = << >>
    /\ order = << >>
    /\ cachedZones = << >>
    /\ \E n \in StageFleets :
          \/ dbDrones = SeedDrones(n, 0) /\ dbTelemetry = << >>
          \/ dbDrones = EarlierDrones(n, 0) /\ dbTelemetry = EarlierRun(n, 0)
    /\ dbZones = SeedZones
    /\ now \in FirstSecond..(FirstSecond + 1)
    /\ ticks = 0
    /\ sent = << >>
    /\ flushed = "none"
    /\ moved = {}
    /\ hitsDrawn = {}
    /\ NoConnections
    /\ locals = NoLocals

\* the loop test, then ManageActiveDrones()
Manage ==
    /\ pc = "loop"
    /\ LoopTest(stopRequested)
    /\ ticks < MaxStageTicks
    /\ \E s \in TickSeeds :
          droneStates' = ManageActiveDrones(droneStates, order, s)
    /\ pc' = "foreach"
    /\ ticks' = ticks + 1
    /\ sent' = << >>
    /\ moved' = {}
    /\ hitsDrawn' = {}
    /\ locals' = NoLocals
    /\ UNCHANGED << stopRequested, order, cachedZones, dbDrones, dbTelemetry,
                    dbZones, now, flushed, audience, hubVars >>

\* foreach (var kvp in _droneStates): the movement of the Active drones and
\* the updates and telemetryRecords lists
Foreach ==
    /\ pc = "foreach"
    /\ \E s \in TickSeeds, hits \in SUBSET (1..MaxHits) :
          LET loop == SimulateLoop([states |-> droneStates, updates |-> << >>,
                                    telemetryRecords |-> << >>, moved |-> {}],
                                   order, 1, s, hits, now)
          IN  /\ droneStates' = loop.states
              /\ moved' = loop.moved
              /\ hitsDrawn' = hits
              /\ locals' = [updates |-> loop.updates,
                            telemetryRecords |-> loop.telemetryRecords]
    /\ pc' = "flush"
    /\ UNCHANGED << stopRequested, order, cachedZones, dbDrones, dbTelemetry,
                    dbZones, now, ticks, sent, flushed, audience, hubVars >>

\* if (telemetryRecords.Any() && DateTime.UtcNow.Second % 10 == 0) { ... }:
\* the flush and SendStatistics, or nothing
FlushTelemetry ==
    /\ pc = "flush"
    /\ \E store \in StoreOutcomes(now) :
          LET due == FlushDue(locals.telemetryRecords, now)
              saved == due /\ store # "writeFails"
              threw == due /\ store # "up"
          IN  /\ dbTelemetry' = SaveChanges(dbTelemetry,
                                            dbTelemetry \o locals.telemetryRecords,
                                            saved)
              /\ dbDrones' = SaveChanges(dbDrones,
                                         FlushedDrones(dbDrones, droneStates, now),
                                         saved)
              /\ flushed' = IF ~due THEN "none"
                            ELSE IF saved THEN "saved" ELSE "failed"
              /\ sent' = IF due /\ ~threw
                         THEN << SendStatistics(droneStates, dbDrones') >>
                         ELSE << >>
              /\ pc' = IF threw THEN CatchTarget(threw) ELSE "push"
    /\ UNCHANGED << stopRequested, droneStates, order, cachedZones, dbZones,
                    now, ticks, moved, hitsDrawn, audience, locals, hubVars >>

\* await _hubContext.Clients.All.SendAsync("DronesUpdated", updates)
PushDronesUpdated ==
    /\ pc = "push"
    /\ sent' = Append(sent, [name |-> "DronesUpdated",
                             payload |-> locals.updates])
    /\ audience' = [reached |-> Listeners, lost |-> Held \ Listeners]
    /\ pc' = "zones"
    /\ UNCHANGED << stopRequested, droneStates, order, cachedZones, dbDrones,
                    dbTelemetry, dbZones, now, ticks, flushed, moved,
                    hitsDrawn, locals, hubVars >>

\* await BroadcastZoneActivity(): the evaluation of the zones and its push;
\* SimulateAndBroadcast returns
PushZoneActivity ==
    /\ pc = "zones"
    /\ sent' = sent \o BroadcastZoneActivity(droneStates, order, cachedZones)
    /\ pc' = CatchTarget(FALSE)
    /\ UNCHANGED << stopRequested, droneStates, order, cachedZones, dbDrones,
                    dbTelemetry, dbZones, now, ticks, flushed, moved,
                    hitsDrawn, audience, locals, hubVars >>

\* await Task.Delay(1000, stoppingToken), and the time the tick took
DelayAtLeast ==
    /\ pc = "delay"
    /\ ~stopRequested
    /\ \E d \in DelayLengths : now' = now + d
    /\ pc' = "loop"
    /\ UNCHANGED << stopRequested, droneStates, order, cachedZones, dbDrones,
                    dbTelemetry, dbZones, ticks, sent, flushed, moved,
                    hitsDrawn, audience, locals, hubVars >>

StageNext ==
    \/ InitializeSimulator
    \/ Manage
    \/ Foreach
    \/ FlushTelemetry
    \/ PushDronesUpdated
    \/ PushZoneActivity
    \/ DelayAtLeast
    \/ Backoff

StageSpec == StageInit /\ [][StageNext]_vars

(***************************************************************************)
(* The Geofence Evaluator on its own: one cached zone, one Active drone    *)
(* placed on a ray from the zone's centre, and BroadcastZoneActivity       *)
(* applied to them.                                                        *)
(***************************************************************************)
\* rays from the centre: through vertex r \div 2 (r even), or through the
\* middle of the edge that starts at that vertex (r odd)
ProbeRays == 0..(2 * segments - 1)

\* distance along the ray, per mille of the polygon's extent on that ray
ProbeScales == {0, 500} \cup (995..1005)

\* <<lon, lat>> of the probe, 1e-5 degree
ProbePoint(poly, r, sc) ==
    LET a == poly.ring[(r \div 2) + 1]
        b == poly.ring[(((r \div 2) + 1) % segments) + 1]
        x == IF r % 2 = 0 THEN 2 * a[1] ELSE a[1] + b[1]
        y == IF r % 2 = 0 THEN 2 * a[2] ELSE a[2] + b[2]
    IN  << poly.cLon + SDiv(SDiv(x * sc, 2000), 10),
           poly.cLat + SDiv(SDiv(y * sc, 2000), 10) >>

ProbeState(point) ==
    [Latitude |-> point[2], Longitude |-> point[1], Altitude |-> 100,
     Speed |-> 100, Heading |-> 0, Status |-> "Active",
     Route |-> << << point[2], point[1] >> >>, CurrentWaypointIndex |-> 0]

GeoInit ==
    /\ pc = "geo"
    /\ stopRequested = FALSE
    /\ \E k \in 1..Len(SeedZones), r \in ProbeRays, sc \in ProbeScales :
          /\ cachedZones = << SeedZones[k] >>
          /\ droneStates =
                [id \in {1} |-> ProbeState(ProbePoint(SeedZones[k].Zone, r, sc))]
    /\ order = << 1 >>
    /\ dbDrones = SeedDrones(1, 0)
    /\ dbTelemetry = << >>
    /\ dbZones = cachedZones
    /\ now = 0
    /\ ticks = 0
    /\ sent = << >>
    /\ flushed = "none"
    /\ moved = {}
    /\ hitsDrawn = {}
    /\ NoConnections
    /\ locals = NoLocals

EvaluateZones ==
    /\ pc = "geo"
    /\ sent' = BroadcastZoneActivity(droneStates, order, cachedZones)
    /\ pc' = "geoDone"
    /\ UNCHANGED << stopRequested, droneStates, order, cachedZones, dbDrones,
                    dbTelemetry, dbZones, now, ticks, flushed, moved,
                    hitsDrawn >>
    /\ UNCHANGED << hubVars, audience, locals >>

GeoNext == EvaluateZones

GeoSpec == GeoInit /\ [][GeoNext]_vars

(***************************************************************************)
(* The canonical membership test of the design: great-circle distance to   *)
(* the zone's centre <= radius.  Distances in decimetres on a sphere of    *)
(* mean radius 6371008.8 m (111195 m per degree); at zone scale the        *)
(* great-circle distance is the equirectangular one at the mid latitude.   *)
(***************************************************************************)
GreatCircleWithin(zone, lon, lat) ==
    LET p  == OffsetOf(zone.Zone, lon, lat)
        r  == 10 * zone.RadiusMeters
        dy == SDiv(p[2] * 22239, 20000)
        dx == SDiv(SDiv(p[1] * 22239, 20000)
                     * CosLat(zone.Zone.cLat + (lat - zone.Zone.cLat) \div 2),
                   10000)
    IN  /\ Abs(p[1]) <= 90000
        /\ Abs(p[2]) <= 90000
        /\ Abs(dx) <= r
        /\ Abs(dy) <= r
        /\ dx * dx + dy * dy <= r * r

(***************************************************************************)
(* The Route Generator on its own: one grounded drone, and ActivateDrone   *)
(* applied to it with a stream of draws.                                   *)
(***************************************************************************)
\* the scripted streams: every pattern with every repeated value
ScriptedStreams == { -j : j \in 1..18 }

\* the streams an activation may draw from
RouteStreams == (0..MaxRouteSeed) \cup ScriptedStreams

RouteInit ==
    /\ pc = "route"
    /\ stopRequested = FALSE
    /\ \E s \in InitSeeds :
          droneStates = [id \in {1} |-> InitialState(MAX_ACTIVE_DRONES, s)]
    /\ order = << 1 >>
    /\ cachedZones = << >>
    /\ dbDrones = SeedDrones(1, 0)
    /\ dbTelemetry = << >>
    /\ dbZones = << >>
    /\ now = 0
    /\ ticks = 0
    /\ sent = << >>
    /\ flushed = "none"
    /\ moved = {}
    /\ hitsDrawn = {}
    /\ NoConnections
    /\ locals = NoLocals

\* ActivateDrone(state, 53.9006, 27.5615) on the grounded drone
Activate ==
    /\ pc = "route"
    /\ \E s \in RouteStreams :
          droneStates' = [droneStates EXCEPT
                             ![1] = ActivateDrone(@, CenterLat, CenterLon, s, 0)]
    /\ pc' = "routeDone"
    /\ UNCHANGED << stopRequested, order, cachedZones, dbDrones, dbTelemetry,
                    dbZones, now, ticks, sent, flushed, moved, hitsDrawn >>
    /\ UNCHANGED << hubVars, audience, locals >>

RouteNext == Activate

RouteSpec == RouteInit /\ [][RouteNext]_vars

(***************************************************************************)
(* The Motion Integrator on its own: one Active drone, as InitializeSimu-  *)
(* lator leaves it or in flight near its target waypoint, and              *)
(* SimulateDroneMovement applied to it.                                    *)
(***************************************************************************)
\* streams the routes of the drone in flight are generated from (one of
\* each pattern, and the walk whose steps are all zero)
MotionSeeds == {3, 9, 14, 17, 35, 25, -12}

\* distances to the target along one axis, 1e-5 degree
NearOffsets == {-60, -50, -30, 0, 30, 50, 60}

\* <<lat, lon>> of the drone relative to its target
MotionOffsets ==
    (NearOffsets \X NearOffsets) \cup { << 1000, -700 >>, << -400, 900 >> }

\* <<Altitude, Speed>> of the drone in flight: the floors, the middle of
\* the range, the ceilings
CruiseLevels == { << 50, 80 >>, << 275, 165 >>, << 500, 250 >> }

\* a drone on route, o away from the waypoint it flies to: the second of
\* the route or (last) the last one
InFlight(s, o, lv, last) ==
    LET route  == GenerateRoute(CenterLat, CenterLon, s, 0)
        k      == IF last THEN Len(route) - 1 ELSE 1
        target == route[k + 1]
    IN  [Latitude |-> target[1] + o[1], Longitude |-> target[2] + o[2],
         Altitude |-> lv[1], Speed |-> lv[2], Heading |-> 0,
         Status |-> "Active", Route |-> route, CurrentWaypointIndex |-> k]

MotionInit ==
    /\ pc = "motion"
    /\ stopRequested = FALSE
    /\ \/ \E s \in MotionSeeds :
             droneStates = [id \in {1} |-> InitialState(0, s)]
       \/ \E s \in MotionSeeds, o \in MotionOffsets, lv \in CruiseLevels,
             last \in BOOLEAN :
             droneStates = [id \in {1} |-> InFlight(s, o, lv, last)]
    /\ order = << 1 >>
    /\ cachedZones = << >>
    /\ dbDrones = SeedDrones(1, 0)
    /\ dbTelemetry = << >>
    /\ dbZones = << >>
    /\ now = 0
    /\ ticks = 0
    /\ sent = << >>
    /\ flushed = "none"
    /\ moved = {}
    /\ hitsDrawn = {}
    /\ NoConnections
    /\ locals = NoLocals

\* SimulateDroneMovement(state) for the drone, as the tick calls it
MotionStep ==
    /\ pc = "motion"
    /\ ticks < MaxSteps
    /\ \E s \in TickSeeds, hit \in BOOLEAN :
          /\ droneStates' = SimulateDroneMovement(droneStates, 1, s, 10, hit)
          /\ hitsDrawn' = IF hit THEN {1} ELSE {}
    /\ moved' = {1}
    /\ ticks' = ticks + 1
    /\ UNCHANGED << pc, stopRequested, order, cachedZones, dbDrones,
                    dbTelemetry, dbZones, now, sent, flushed >>
    /\ UNCHANGED << hubVars, audience, locals >>

MotionNext == MotionStep

MotionSpec == MotionInit /\ [][MotionNext]_vars

(***************************************************************************)
(* Vocabulary of the properties                                            *)
(***************************************************************************)
\* InitializeSimulator has run
Initialized == pc \in {"loop", "delay", "backoff", "stopped"}

\* a step that is one SimulateAndBroadcast call
TickStep == pc = "loop" /\ pc' \in {"delay", "backoff"}

Inactive(states) == {id \in DOMAIN states : states[id].Status = "Inactive"}

Active(states) == {id \in DOMAIN states : states[id].Status = "Active"}

\* the events of the latest tick with a given name
Events(name) == {i \in 1..Len(sent) : sent[i].name = name}

\* the Active drones the evaluator's test puts in a zone
ActiveInside(zone) ==
    {id \in Active(droneStates) :
        Contains(zone.Zone, droneStates[id].Longitude, droneStates[id].Latitude)}

\* the drones of the primed table that are Active and inside a zone
ActiveInsideNext(zone) ==
    {id \in Active(droneStates') :
        Contains(zone.Zone, droneStates'[id].Longitude,
                            droneStates'[id].Latitude)}

\* the entries a zone-activity list holds for a zone
EntriesOf(list, zone) == {j \in 1..Len(list) : list[j].zoneId = zone.Id}

\* the fields of a DroneState a motion step can change
Kinematics(state) ==
    << state.Latitude, state.Longitude, state.Altitude, state.Speed,
       state.Heading, state.CurrentWaypointIndex >>

(***************************************************************************)
(* C1.  Bounded population: with a fleet of at least MIN_ACTIVE_DRONES     *)
(* drones, from the end of the initialization on the number of Active      *)
(* drones is within MIN_ACTIVE_DRONES..MAX_ACTIVE_DRONES, and a step that  *)
(* deactivates a drone leaves at least MIN_ACTIVE_DRONES Active.           *)
(***************************************************************************)
C1_BoundedPopulation ==
    /\ [](Initialized /\ FleetSize >= MIN_ACTIVE_DRONES
            => /\ CountActive(droneStates) >= MIN_ACTIVE_DRONES
               /\ CountActive(droneStates) <= MAX_ACTIVE_DRONES)
    /\ [][(\E id \in Active(droneStates) : id \in Inactive(droneStates'))
            => CountActive(droneStates') >= MIN_ACTIVE_DRONES]_vars

\* a tick took a deactivation down to the minimum and refused another one
C1_Witness ==
    /\ ticks >= 1
    /\ FleetSize >= MIN_ACTIVE_DRONES
    /\ CountActive(droneStates) = MIN_ACTIVE_DRONES
    /\ Cardinality(hitsDrawn) >= 2
    /\ \E id \in Inactive(droneStates) : Len(droneStates[id].Route) > 0

(***************************************************************************)
(* C2.  Scenario A as stated: a fleet of 15, all seeded Inactive; after    *)
(* the first tick exactly 10 drones are Active and 5 Inactive, whatever    *)
(* the draws of the tick.                                                  *)
(***************************************************************************)
C2_Original ==
    (FleetSize = SeedFleet /\ ticks = 1)
        => /\ CountActive(droneStates) = 10
           /\ Cardinality(Inactive(droneStates)) = 5

(***************************************************************************)
(* C2 amended.  With a fleet of 15, after the initialization exactly 10    *)
(* drones are Active and 5 Inactive; after the first tick the number of    *)
(* Active drones is 10 less the deactivation draws that hit in that tick   *)
(* (never less than MIN_ACTIVE_DRONES), so it is 10 only when none hits.   *)
(***************************************************************************)
C2_Amended ==
    /\ (FleetSize = SeedFleet /\ Initialized /\ ticks = 0)
          => /\ CountActive(droneStates) = 10
             /\ Cardinality(Inactive(droneStates)) = 5
    /\ (FleetSize = SeedFleet /\ ticks = 1)
          => /\ CountActive(droneStates) =
                   Max(MIN_ACTIVE_DRONES,
                       MAX_ACTIVE_DRONES - Cardinality(hitsDrawn))
             /\ Cardinality(Inactive(droneStates)) =
                   SeedFleet - CountActive(droneStates)

\* the first tick of a fleet of 15 deactivated a drone
C2_Witness ==
    /\ FleetSize = SeedFleet
    /\ ticks = 1
    /\ hitsDrawn # {}
    /\ CountActive(droneStates) < 10

(***************************************************************************)
(* C3.  A tick whose flush fails on the write still pushes its             *)
(* DronesUpdated event and (with cached zones) its ZoneActivityUpdated     *)
(* event.                                                                  *)
(***************************************************************************)
C3_FailedFlushKeepsBroadcast ==
    flushed = "failed"
        => /\ Events("DronesUpdated") # {}
           /\ Len(cachedZones) > 0 => Events("ZoneActivityUpdated") # {}

(***************************************************************************)
(* C4.  A flush whose write fails changes nothing in the durable store:    *)
(* no telemetry sample is appended and no Drones row changes.              *)
(***************************************************************************)
C4_FailedFlushIsAtomic ==
    [][(TickStep /\ flushed' = "failed")
          => /\ dbTelemetry' = dbTelemetry
             /\ dbDrones' = dbDrones]_vars

\* a flush has just failed
C4_Witness ==
    /\ flushed = "failed"
    /\ pc = "backoff"
    /\ CountActive(droneStates) > 0

(***************************************************************************)
(* C5.  An exception inside a tick, with no shutdown requested, does not   *)
(* end the loop: the tick hands over to the back-off (or the delay), the   *)
(* back-off lasts ErrorDelay seconds and returns to the loop, a further    *)
(* tick then runs unless a shutdown is requested, and every tick steps     *)
(* every drone that is Active when it starts.                              *)
(***************************************************************************)
C5_ExceptionDoesNotStopLoop ==
    /\ [][(pc = "loop" /\ ~stopRequested) => pc' # "stopped"]_vars
    /\ [][(pc = "backoff" /\ ~stopRequested /\ pc' # "backoff")
             => (pc' = "loop" /\ now' = now + ErrorDelay)]_vars
    /\ [][TickStep => Active(droneStates) \subseteq moved']_vars
    /\ \A k \in 0..(MaxTicks - 1) :
          (pc = "backoff" /\ ticks = k) ~> (ticks = k + 1 \/ stopRequested)

\* a tick has run after a back-off and stepped drones
C5_Witness ==
    /\ ticks >= 2
    /\ now >= FirstSecond + ErrorDelay
    /\ ~stopRequested
    /\ moved # {}
    /\ Active(droneStates) \subseteq moved

(***************************************************************************)
(* C6.  Every drone whose live status is Inactive has an empty route.      *)
(***************************************************************************)
C6_InactiveHasNoRoute ==
    \A id \in Inactive(droneStates) : Len(droneStates[id].Route) = 0

(***************************************************************************)
(* C7.  A drone that is Inactive before and after a tick keeps its         *)
(* latitude, longitude, altitude, speed, heading and waypoint index, and   *)
(* the zone-activity list of the tick counts no more drones in a zone      *)
(* than the Active drones inside it.                                       *)
(***************************************************************************)
C7_InactiveUntouched ==
    [][TickStep
         => /\ \A id \in Inactive(droneStates) \cap Inactive(droneStates') :
                  Kinematics(droneStates'[id]) = Kinematics(droneStates[id])
            /\ \A i \in 1..Len(sent') :
                  sent'[i].name = "ZoneActivityUpdated"
                    => \A k \in 1..Len(cachedZones) :
                          \A j \in EntriesOf(sent'[i].payload, cachedZones[k]) :
                             sent'[i].payload[j].droneCount
                                <= Cardinality(ActiveInsideNext(cachedZones[k]))]_vars

\* after a tick that pushed a zone-activity list, a drone that was never
\* activated rests inside a cached zone
C7_Witness ==
    /\ ticks >= 1
    /\ Events("ZoneActivityUpdated") # {}
    /\ \E id \in Inactive(droneStates) :
          /\ Len(droneStates[id].Route) = 0
          /\ \E k \in 1..Len(cachedZones) :
                Contains(cachedZones[k].Zone, droneStates[id].Longitude,
                         droneStates[id].Latitude)

(***************************************************************************)
(* C8.  Scenario C as stated: a successful flush in a tick with k Active   *)
(* drones appends exactly k telemetry samples and updates exactly k        *)
(* Drones rows.                                                            *)
(***************************************************************************)
C8_Original ==
    [][(TickStep /\ flushed' = "saved")
          => /\ Len(dbTelemetry') = Len(dbTelemetry) + CountActive(droneStates')
             /\ Cardinality({id \in DOMAIN dbDrones : dbDrones'[id] # dbDrones[id]})
                   = CountActive(droneStates')]_vars

(***************************************************************************)
(* C8 amended.  A successful flush in a tick with k Active drones appends  *)
(* exactly k telemetry samples, one per Active drone and none for an       *)
(* Inactive one, and updates the Drones row of every drone of the fleet,   *)
(* Active or not: status set to the live status, last-seen to the time of  *)
(* the flush.                                                              *)
(***************************************************************************)
C8_Amended ==
    [][(TickStep /\ flushed' = "saved")
          => /\ Len(dbTelemetry') = Len(dbTelemetry) + CountActive(droneStates')
             /\ SubSeq(dbTelemetry', 1, Len(dbTelemetry)) = dbTelemetry
             /\ \A id \in Active(droneStates') :
                   Cardinality({j \in (Len(dbTelemetry) + 1)..Len(dbTelemetry') :
                                   dbTelemetry'[j].DroneId = id}) = 1
             /\ \A id \in DOMAIN dbDrones :
                   /\ dbDrones'[id].Status = droneStates'[id].Status
                   /\ dbDrones'[id].LastSeen = now
                   /\ dbDrones'[id].Frequency = dbDrones[id].Frequency]_vars

\* a flush succeeded while part of the fleet was Inactive
C8_Witness ==
    /\ flushed = "saved"
    /\ Inactive(droneStates) # {}
    /\ Len(dbTelemetry) = CountActive(droneStates)
    /\ \A id \in DOMAIN dbDrones : dbDrones[id].LastSeen = now

Probe == droneStates[1]

ProbeZone == cachedZones[1]

\* the zone-activity list reports the drone inside the zone
ReportedInside ==
    \E i \in Events("ZoneActivityUpdated") :
        EntriesOf(sent[i].payload, ProbeZone) # {}

AtCentre ==
    /\ Probe.Longitude = ProbeZone.Zone.cLon
    /\ Probe.Latitude = ProbeZone.Zone.cLat

WithinRadius == GreatCircleWithin(ProbeZone, Probe.Longitude, Probe.Latitude)

TargetOf(state) == state.Route[state.CurrentWaypointIndex + 1]

\* squared distance from a drone to a waypoint
Dist2(state, point) ==
    (point[1] - state.Latitude) * (point[1] - state.Latitude)
        + (point[2] - state.Longitude) * (point[2] - state.Longitude)

\* a step that is one SimulateDroneMovement call on the drone in flight
MotionStepTaken == pc = "motion" /\ ticks' = ticks + 1

\* the distinct points of a route
PointsOf(route) == {route[i] : i \in 1..Len(route)}

(***************************************************************************)
(* C11.  Motion progress: a motion step of an Active drone with a route    *)
(* either brings the drone strictly closer to the waypoint that was its    *)
(* target when the step began, or advances the waypoint index.             *)
(***************************************************************************)
C11_MotionProgress ==
    [][MotionStepTaken =>
          LET before == droneStates[1]
              after  == droneStates'[1]
              target == TargetOf(before)
          IN  (before.Status = "Active" /\ Len(before.Route) > 0) =>
                 \/ Dist2(after, target) < Dist2(before, target)
                 \/ after.CurrentWaypointIndex # before.CurrentWaypointIndex]_vars

\* a step has wrapped the index from the last waypoint to the first, and
\* the drone is still within the arrival distance of the waypoint it left
C11_Witness ==
    /\ pc = "motion"
    /\ ticks = 1
    /\ droneStates[1].CurrentWaypointIndex = 0
    /\ LET state == droneStates[1]
       IN  /\ Len(state.Route) > 1
           /\ Arrived(Dist2(state, state.Route[Len(state.Route)]))

(***************************************************************************)
(* C12.  Kinematic ranges: every drone's heading is in [0, 360), its       *)
(* altitude in [50, 500] m and its speed in [8, 25] m/s, after the         *)
(* initialization and after every motion step; the distance a step divides *)
(* by is positive whenever the step divides.                               *)
(***************************************************************************)
C12_KinematicRanges ==
    \A id \in DOMAIN droneStates :
        LET state == droneStates[id]
        IN  /\ state.Heading \in 0..359
            /\ state.Altitude \in 50..500
            /\ state.Speed \in 80..250
            /\ (state.Status = "Active" /\ Len(state.Route) > 0
                   /\ Dist2(state, TargetOf(state)) > 0)
                  => Distance100(Dist2(state, TargetOf(state))) > 0

\* a step has set a heading in the half turn where Math.Atan2 is negative
\* and has held the altitude at its floor
C12_Witness ==
    /\ pc = "motion"
    /\ ticks >= 1
    /\ droneStates[1].Heading \in 181..359
    /\ droneStates[1].Altitude = 50

(***************************************************************************)
(* C13.  Route Generator, as stated: whatever the pattern drawn and        *)
(* whatever the other draws, the route of an activated drone is non-empty  *)
(* and holds at least 2 distinct points.                                   *)
(***************************************************************************)
C13_Original ==
    pc = "routeDone" =>
        /\ Len(droneStates[1].Route) > 0
        /\ Cardinality(PointsOf(droneStates[1].Route)) >= 2

\* the pattern a stream makes GenerateRoute draw
RouteTypeOf(s) == NextInt(s, 0, 0, 6)

\* the draws of the crossing pattern (angle, distance of each point) repeat
SameCrossingDraws(s) ==
    \A i \in 1..NextInt(s, 3, 5, 9) :
        /\ NextDouble(s, 3 + 2 * i - 1) = NextDouble(s, 4)
        /\ NextDouble(s, 3 + 2 * i) = NextDouble(s, 5)

\* every step of the random walk is drawn as one half, a step of zero
ZeroWalkDraws(s) ==
    \A i \in 1..(2 * NextInt(s, 3, 8, 15)) : NextDouble(s, 3 + i) = 500

(***************************************************************************)
(* C13, amended.  Every pattern 0..5 yields a route of at least 4          *)
(* waypoints, whatever the draws; the route holds at least 2 distinct      *)
(* points unless the pattern is the crossing and all its points are drawn  *)
(* with the same angle and distance, or the pattern is the random walk and *)
(* every step is drawn as zero.                                            *)
(***************************************************************************)
C13_Amended ==
    [][\A s \in RouteStreams :
          (pc = "route"
              /\ droneStates'[1] =
                    ActivateDrone(droneStates[1], CenterLat, CenterLon, s, 0))
          => LET route == droneStates'[1].Route
             IN  /\ RouteTypeOf(s) \in 0..5
                 /\ Len(route) >= 4
                 /\ \/ Cardinality(PointsOf(route)) >= 2
                    \/ RouteTypeOf(s) = 1 /\ SameCrossingDraws(s)
                    \/ RouteTypeOf(s) = 5 /\ ZeroWalkDraws(s)]_vars

\* a random walk has been generated whose waypoints are all distinct
C13_Witness ==
    /\ pc = "routeDone"
    /\ droneStates[1].Status = "Active"
    /\ droneStates[1].Route[1] = << droneStates[1].Latitude,
                                    droneStates[1].Longitude >>
    /\ Len(droneStates[1].Route) \in {9, 11, 13, 14, 15}
    /\ Cardinality(PointsOf(droneStates[1].Route)) = Len(droneStates[1].Route)

(***************************************************************************)
(* C20.  Arrival handling, as stated: a motion step of an Active drone     *)
(* that finds the drone within the arrival distance of its target advances *)
(* the index to (index + 1) mod len(route), takes the direction vector     *)
(* again from the new target, and moves the drone and sets its heading     *)
(* along that vector; any other step moves along the vector to the target. *)
(***************************************************************************)
C20_ArrivalRenewsVector ==
    [][(MotionStepTaken /\ droneStates[1].Status = "Active"
           /\ Len(droneStates[1].Route) > 0)
          => \E s \in TickSeeds :
                Kinematics(droneStates'[1])
                    = Kinematics(MoveStepRenewed(droneStates[1], s, 10))]_vars

(***************************************************************************)
(* C19.  Cancellation: once the shutdown signal is raised no tick is       *)
(* started any more; a delay or back-off that is under way ends            *)
(* ExecuteAsync without another pass of the loop; the loop then exits,     *)
(* and once it has exited it stays so.                                     *)
(***************************************************************************)
C19_Cancellation ==
    /\ [][stopRequested => (~TickStep /\ ticks' = ticks /\ stopRequested')]_vars
    /\ [][(stopRequested /\ pc \in {"delay", "backoff"} /\ pc' # pc)
             => pc' = "stopped"]_vars
    /\ [][pc = "stopped" => pc' = "stopped"]_vars
    /\ stopRequested ~> (pc = "stopped")

\* the signal came during the back-off of a failed tick, and the loop has
\* exited with further ticks still to run
C19_Witness ==
    /\ pc = "stopped"
    /\ stopRequested
    /\ flushed = "failed"
    /\ ticks = 1
    /\ ticks < MaxTicks
    /\ now % FlushModulus = 0

(***************************************************************************)
(* Vocabulary of the hub properties                                        *)
(***************************************************************************)
\* the names of the messages of a list, in order
NamesOf(messages) == [i \in 1..Len(messages) |-> messages[i].name]

\* the connections a list of messages is addressed to
AddresseesOf(messages) == {messages[i].to : i \in 1..Len(messages)}

\* the latest sample the store holds of a drone
LatestPoint(telemetry, droneId) ==
    IF SamplesOf(telemetry, droneId) = {} THEN NoPoint
    ELSE PointOf(telemetry[CHOOSE i \in SamplesOf(telemetry, droneId) :
                     \A j \in SamplesOf(telemetry, droneId) :
                         telemetry[j].Timestamp <= telemetry[i].Timestamp])

\* a step of the connect handler of connection c, from one part to the next
ConnectStep(c, from, to) == hpc[c] = from /\ hpc'[c] = to

\* a step taken by the hub or by a client
HubStep == << hpc, online, memberOf, calls >>' # << hpc, online, memberOf, calls >>

(***************************************************************************)
(* C14.  Connect protocol, as stated: the connect handler of a connection  *)
(* sends to the caller and to nobody else, in this order and each once,    *)
(* Connected, Subscribed, InitialDronesState, CoverageZones and            *)
(* DroneStatistics, and puts the connection in the all-drones group; the   *)
(* snapshot holds one entry per row of Drones, with the row's status and   *)
(* the drone's latest sample.                                              *)
(***************************************************************************)
C14_ConnectProtocol ==
    /\ [][\A c \in Connections : hpc'[c] # hpc[c] =>
             << hpc[c], hpc'[c] >> \in
                 { << "absent", "subscribe" >>, << "subscribe", "zones" >>,
                   << "zones", "stats" >>, << "stats", "idle" >>,
                   << "idle", "gone" >> }]_vars
    /\ [][\A c \in Connections : ConnectStep(c, "absent", "subscribe") =>
             /\ NamesOf(hubSent') = << "Connected" >>
             /\ AddresseesOf(hubSent') = {c}]_vars
    /\ [][\A c \in Connections : ConnectStep(c, "subscribe", "zones") =>
             /\ AllDronesGroup \in memberOf'[c]
             /\ NamesOf(hubSent') = << "Subscribed", "InitialDronesState" >>
             /\ AddresseesOf(hubSent') = {c}
             /\ DOMAIN hubSent'[2].payload = DOMAIN dbDrones
             /\ \A id \in DOMAIN dbDrones :
                   /\ hubSent'[2].payload[id].id = id
                   /\ hubSent'[2].payload[id].status = dbDrones[id].Status
                   /\ hubSent'[2].payload[id].currentPosition
                         = LatestPoint(dbTelemetry, id)]_vars
    /\ [][\A c \in Connections : ConnectStep(c, "zones", "stats") =>
             /\ NamesOf(hubSent') = << "CoverageZones" >>
             /\ AddresseesOf(hubSent') = {c}
             /\ hubSent'[1].payload = ZoneList(dbZones)]_vars
    /\ [][\A c \in Connections : ConnectStep(c, "stats", "idle") =>
             /\ NamesOf(hubSent') = << "DroneStatistics" >>
             /\ AddresseesOf(hubSent') = {c}
             /\ hubSent'[1].payload = HubStatistics(dbDrones)
             /\ AllDronesGroup \in memberOf'[c]]_vars

\* the step is the invocation of a hub method by a client
Invoked(method) == calls' = calls + 1 /\ asked'.method = method

\* the step is a request that names a drone or a zone the store does not hold
UnknownRequest ==
    \/ Invoked("GetDroneTrajectory") /\ asked'.id \notin DOMAIN dbDrones
    \/ Invoked("SubscribeToZone") /\ FindZone(dbZones, asked'.id) = << >>
    \/ Invoked("UnsubscribeFromZone") /\ FindZone(dbZones, asked'.id) = << >>

(***************************************************************************)
(* C15.  Requests with an unknown id, as stated: a trajectory request for  *)
(* a drone the store does not hold, and a subscription to or from a zone   *)
(* it does not hold, is answered with one message to the caller (for a     *)
(* trajectory, one with no points), sends nothing to another connection,   *)
(* and changes no group membership, no drone's simulation state and no     *)
(* row of the store.                                                       *)
(***************************************************************************)
C15_UnknownIdRequests ==
    [][UnknownRequest =>
          /\ Len(hubSent') = 1
          /\ AddresseesOf(hubSent') = {asked'.c}
          /\ Invoked("GetDroneTrajectory") => hubSent'[1].payload.points = << >>
          /\ memberOf' = memberOf
          /\ UNCHANGED << droneStates, dbDrones, dbTelemetry, dbZones >>]_vars


\* the point a trajectory reply carries for a Telemetry row
ReplayPoint(row) ==
    [lat |-> row.Latitude, lon |-> row.Longitude, altitude |-> row.Altitude,
     speed |-> row.Speed, heading |-> row.Heading, timestamp |-> row.Timestamp]

\* the rows of Telemetry a replay of drone a over the last n hours at time t
\* has to return
RowsDue(telemetry, a, n, t) ==
    {i \in 1..Len(telemetry) :
        /\ telemetry[i].DroneId = a
        /\ telemetry[i].Timestamp >= t - n * SecondsPerHour}

(***************************************************************************)
(* C16.  Trajectory replay: GetDroneTrajectory(a, N) sends one message,    *)
(* DroneTrajectory, to the caller only; its points are the Telemetry rows  *)
(* of drone a with Timestamp >= now - N hours, each of them once and no    *)
(* other row, in ascending order of timestamp.                             *)
(***************************************************************************)
C16_TrajectoryReplay ==
    [][Invoked("GetDroneTrajectory") =>
          LET reply  == hubSent'[1]
              points == reply.payload.points
              due    == RowsDue(dbTelemetry, asked'.id,
                                reply.payload.requestedHours, now)
          IN  /\ NamesOf(hubSent') = << "DroneTrajectory" >>
              /\ reply.to = asked'.c
              /\ reply.payload.droneId = asked'.id
              /\ Len(points) = Cardinality(due)
              /\ \A p \in {ReplayPoint(dbTelemetry[i]) : i \in due}
                        \cup {points[k] : k \in 1..Len(points)} :
                    Cardinality({k \in 1..Len(points) : points[k] = p})
                      = Cardinality({i \in due : ReplayPoint(dbTelemetry[i]) = p})
              /\ \A j, k \in 1..Len(points) :
                    j < k => points[j].timestamp <= points[k].timestamp]_vars

\* a replay was answered with the sample taken exactly at the start of the
\* window and a later one, while the store holds samples of another drone
C16_Witness ==
    /\ asked.method = "GetDroneTrajectory"
    /\ NamesOf(hubSent) = << "DroneTrajectory" >>
    /\ Len(hubSent[1].payload.points) = 2
    /\ hubSent[1].payload.points[1].timestamp
          = now - hubSent[1].payload.requestedHours * SecondsPerHour
    /\ \E i \in 1..Len(dbTelemetry) : dbTelemetry[i].DroneId # asked.id


\* the step is the loss of connection c: its transport closes, or the hub
\* lets go of it
Disconnects(c) ==
    \/ online[c] /\ ~online'[c]
    \/ hpc[c] # "gone" /\ hpc'[c] = "gone"

C18_SingleWriter ==
    /\ [][HubStep => UNCHANGED << droneStates, dbDrones, dbTelemetry, dbZones,
                                  cachedZones >>]_vars
    /\ [][droneStates' # droneStates => TickStep /\ ticks' = ticks + 1]_vars
    /\ [][dbDrones' # dbDrones => TickStep /\ flushed' = "saved"]_vars
    /\ [][dbTelemetry' # dbTelemetry => TickStep /\ flushed' = "saved"]_vars
    /\ [][UNCHANGED dbZones]_vars

\* every hub method has run between a connect and a disconnect, around a
\* tick that flushed: here a query was answered after the flush and its
\* connection is gone, while the store holds the rows the tick wrote
C18_Witness ==
    /\ flushed = "saved"
    /\ calls > 0
    /\ \E c \in Connections : hpc[c] = "gone" /\ asked.c = c
    /\ \E id \in DOMAIN dbDrones : dbDrones[id].LastSeen = HubClock


(***************************************************************************)
(* Vocabulary of the stage properties                                      *)
(***************************************************************************)
\* the step is the lifecycle step of a tick: ManageActiveDrones
ManageStep == pc = "loop" /\ pc' = "foreach"

\* the step is the movement of a tick: the foreach over the fleet
ForeachStep == pc = "foreach" /\ pc' = "flush"

\* the step is the flush test of a tick, and the flush if it is due
FlushStep == pc = "flush" /\ pc' # "flush"

\* the drones a step turns from Inactive to Active
Activated == Inactive(droneStates) \cap Active(droneStates')

C22_FlushProjectsStatus ==
    [][(FlushStep /\ flushed' = "saved") =>
          /\ DOMAIN dbDrones' = DOMAIN droneStates
          /\ \A id \in DOMAIN droneStates :
                /\ dbDrones'[id].Status = droneStates[id].Status
                /\ dbDrones'[id].Status = droneStates'[id].Status
                /\ dbDrones'[id].LastSeen = now]_vars

\* a flush has just saved in a tick whose movement deactivated a drone, and
\* the drone's row says Inactive
C22_Witness ==
    /\ pc \in {"push", "backoff"}
    /\ flushed = "saved"
    /\ \E id \in moved :
          /\ droneStates[id].Status = "Inactive"
          /\ dbDrones[id].Status = "Inactive"
          /\ dbDrones[id].LastSeen = now
    /\ \E id \in DOMAIN droneStates : dbDrones[id].Status = "Active"


\* the events pushed so far in the tick under way that carry a given name
Pushed(name) == \E i \in 1..Len(sent) : sent[i].name = name

\* the parts of the tick, in the order of the design: the ones that have
\* run when pc names the part to run next
ZonesEvaluated == pc \in {"delay", "loop"}

\* the entry of an updates list for a drone, as the live table holds it
UpdateOf(states, id, t) ==
    [id |-> id, latitude |-> states[id].Latitude,
     longitude |-> states[id].Longitude, altitude |-> states[id].Altitude,
     speed |-> states[id].Speed, heading |-> states[id].Heading,
     status |-> states[id].Status, timestamp |-> t]

\* the two pushes of a tick describe the live table: every entry of the
\* positions-updated batch is the drone's entry, and every count of the
\* zone-activity list is the number of Active drones inside the zone
SamePostMotionState ==
    /\ \A i \in Events("DronesUpdated") :
          \A j \in 1..Len(sent[i].payload) :
             \E t \in {sent[i].payload[j].timestamp} :
                sent[i].payload[j]
                   = UpdateOf(droneStates, sent[i].payload[j].id, t)
    /\ \A i \in Events("ZoneActivityUpdated") :
          \A k \in 1..Len(cachedZones) :
             \A j \in EntriesOf(sent[i].payload, cachedZones[k]) :
                sent[i].payload[j].droneCount
                   = Cardinality(ActiveInside(cachedZones[k]))

(***************************************************************************)
(* C23.  Tick stage order, as stated: in every tick the lifecycle step     *)
(* runs before the movement of any drone, the movement of every Active     *)
(* drone before the evaluation of the zones, and the evaluation of the     *)
(* zones before both pushes of the tick, DronesUpdated and                 *)
(* ZoneActivityUpdated; both pushes describe the state after the movement. *)
(***************************************************************************)
C23_Original ==
    /\ [][ManageStep => moved' = {}]_vars
    /\ [][ForeachStep => Active(droneStates) \subseteq moved']_vars
    /\ [][moved' # moved => ManageStep \/ ForeachStep]_vars
    /\ [](Pushed("DronesUpdated") => ZonesEvaluated)
    /\ [](Pushed("ZoneActivityUpdated") => ZonesEvaluated)
    /\ [](pc = "delay" => SamePostMotionState)

(***************************************************************************)
(* C23 amended.  In every tick the lifecycle step runs before the movement *)
(* of any drone and the movement of every Active drone before both pushes; *)
(* DronesUpdated is pushed before the zones are evaluated, and             *)
(* ZoneActivityUpdated right after their evaluation; no drone changes      *)
(* between the movement and the end of the tick, so both pushes describe   *)
(* the state after the movement.                                           *)
(***************************************************************************)
C23_Amended ==
    /\ [][ManageStep => moved' = {}]_vars
    /\ [][ForeachStep => Active(droneStates) \subseteq moved']_vars
    /\ [][moved' # moved => ManageStep \/ ForeachStep]_vars
    /\ [](Pushed("DronesUpdated") => pc \in {"zones", "delay", "loop"})
    /\ [](pc = "zones" => Pushed("DronesUpdated"))
    /\ [](Pushed("ZoneActivityUpdated") => ZonesEvaluated)
    /\ [][(pc \in {"flush", "push", "zones"}) => droneStates' = droneStates]_vars
    /\ [](pc = "delay" => SamePostMotionState)

\* DronesUpdated has been pushed and the zones are still to be evaluated,
\* in a tick whose movement deactivated a drone
C23_Witness ==
    /\ pc = "zones"
    /\ Pushed("DronesUpdated")
    /\ ~Pushed("ZoneActivityUpdated")
    /\ \E id \in moved : droneStates[id].Status = "Inactive"


\* the step writes to the store
StoreWritten == dbTelemetry' # dbTelemetry \/ dbDrones' # dbDrones

\* the second of the minute the clock shows
SecondOf(t) == t % 60

\* the time of the flush that wrote the rows of Drones
LastFlushAt == dbDrones[order[1]].LastSeen

C27_IndexWithinRoute ==
    \A id \in Active(droneStates) :
        /\ Len(droneStates[id].Route) > 0
        /\ droneStates[id].CurrentWaypointIndex >= 0
        /\ droneStates[id].CurrentWaypointIndex < Len(droneStates[id].Route)

\* after two motion steps the drone, still Active, has gone round: it is
\* by the last waypoint of its route and flies to the first
C27_Witness ==
    /\ pc = "motion"
    /\ ticks = 2
    /\ droneStates[1].Status = "Active"
    /\ droneStates[1].CurrentWaypointIndex = 0
    /\ Len(droneStates[1].Route) > 1
    /\ Dist2(droneStates[1], droneStates[1].Route[Len(droneStates[1].Route)])
          < Dist2(droneStates[1], droneStates[1].Route[1])


(***************************************************************************)
(* C28.  With a fleet of MIN_ACTIVE_DRONES drones or more, after the       *)
(* initialization no step raises the number of Active drones and no        *)
(* Inactive drone becomes Active: at the start of every tick               *)
(* MIN_ACTIVE_DRONES or more are Active, so the lifecycle step activates   *)
(* nobody, and the number of Active drones only steps down, never below    *)
(* MIN_ACTIVE_DRONES.                                                      *)
(***************************************************************************)
C28_NoReactivation ==
    /\ [][(Initialized /\ FleetSize >= MIN_ACTIVE_DRONES) =>
             /\ CountActive(droneStates') <= CountActive(droneStates)
             /\ Inactive(droneStates) \subseteq Inactive(droneStates')
             /\ CountActive(droneStates') >= MIN_ACTIVE_DRONES]_vars
    /\ []((pc = "loop" /\ FleetSize >= MIN_ACTIVE_DRONES)
             => CountActive(droneStates) >= MIN_ACTIVE_DRONES)

\* a drone deactivated in the first tick has stayed Inactive through the
\* second, in which another drone was deactivated
C28_Witness ==
    /\ ticks = 2
    /\ FleetSize = SeedFleet
    /\ hitsDrawn # {}
    /\ CountActive(droneStates) = MAX_ACTIVE_DRONES - 2
    /\ \E id \in Inactive(droneStates) \ moved :
          Len(droneStates[id].Route) > 0
    /\ \E id \in Inactive(droneStates) \cap moved :
          Len(droneStates[id].Route) > 0


\* the drones the movement of the latest tick deactivated
DeactivatedInTick == {id \in moved : droneStates[id].Status = "Inactive"}

\* the Telemetry rows written at a given time
RowsAt(t) == {i \in 1..Len(dbTelemetry) : dbTelemetry[i].Timestamp = t}

(***************************************************************************)
(* C29.  Every DronesUpdated batch a tick pushes holds exactly one entry   *)
(* per drone of the fleet, Active or Inactive, with the position, the      *)
(* other kinematic fields and the status the drone has after the movement  *)
(* of that tick; a drone deactivated in the tick is in the batch as        *)
(* Inactive at the position it moved to, has no row among the telemetry    *)
(* records the tick saves, and is not counted in the tick's zone-activity  *)
(* list.                                                                   *)
(***************************************************************************)
C29_BatchCoversFleet ==
    (ticks >= 1 /\ pc \in {"delay", "backoff"}) =>
        /\ \A i \in Events("DronesUpdated") :
              /\ Len(sent[i].payload) = Cardinality(DOMAIN droneStates)
              /\ \A id \in DOMAIN droneStates :
                    \E j \in 1..Len(sent[i].payload) :
                       /\ sent[i].payload[j] = UpdateOf(droneStates, id, now)
                       /\ \A k \in 1..Len(sent[i].payload) :
                             sent[i].payload[k].id = id => k = j
        /\ \A id \in DeactivatedInTick :
              /\ flushed = "saved" =>
                    \A r \in RowsAt(now) : dbTelemetry[r].DroneId # id
              /\ \A i \in Events("ZoneActivityUpdated") :
                    \A k \in 1..Len(cachedZones) :
                       \A j \in EntriesOf(sent[i].payload, cachedZones[k]) :
                          sent[i].payload[j].droneCount
                             = Cardinality(ActiveInside(cachedZones[k]) \ {id})
        /\ flushed = "saved" =>
              \A id \in Active(droneStates) :
                 \E r \in RowsAt(now) : dbTelemetry[r].DroneId = id

\* a tick that flushed has pushed its batch, in which a drone it deactivated
\* inside a zone is Inactive at the place it moved to
C29_Witness ==
    /\ pc = "delay"
    /\ flushed = "saved"
    /\ Events("DronesUpdated") # {}
    /\ Events("ZoneActivityUpdated") # {}
    /\ \E id \in DeactivatedInTick :
          /\ \E k \in 1..Len(cachedZones) :
                Contains(cachedZones[k].Zone, droneStates[id].Longitude,
                         droneStates[id].Latitude)
          /\ \E i \in Events("DronesUpdated") :
                \E j \in 1..Len(sent[i].payload) :
                   /\ sent[i].payload[j].id = id
                   /\ sent[i].payload[j].status = "Inactive"
                   /\ sent[i].payload[j].latitude # droneStates[id].Route[1][1]


\* connection c invokes a hub method with an id in this step
Asks(c, method, id) ==
    /\ calls' = calls + 1
    /\ asked' = [c |-> c, method |-> method, id |-> id]

\* the hub's step sent the caller one message of that name about the group
Acked(c, name, group) ==
    /\ Len(hubSent') = 1
    /\ hubSent'[1].to = c
    /\ hubSent'[1].name = name
    /\ hubSent'[1].payload.group = group

\* the step changes no membership but, at most, c's membership of the group
OnlyGroupOf(c, group) ==
    /\ memberOf'[c] \ {group} = memberOf[c] \ {group}
    /\ \A d \in Connections \ {c} : memberOf'[d] = memberOf[d]

(***************************************************************************)
(* C25.  SubscribeToZone(z) for a zone of the table puts the caller in the *)
(* group of z and acknowledges to the caller; UnsubscribeFromZone(z) takes *)
(* the caller out of it and acknowledges; either call repeated leaves the  *)
(* membership as the first left it, an unsubscription that follows the     *)
(* subscription leaves the caller out of the group as it was before, and   *)
(* neither call changes another connection's groups or the caller's other  *)
(* groups.                                                                 *)
(***************************************************************************)
C25_ZoneSubscription ==
    [][\A c \in Connections, z \in GroupZoneIds :
          /\ (Asks(c, "SubscribeToZone", z) /\ FindZone(dbZones, z) # << >>) =>
                /\ ZoneGroup(z) \in memberOf'[c]
                /\ Acked(c, "Subscribed", ZoneGroup(z))
                /\ OnlyGroupOf(c, ZoneGroup(z))
                /\ ZoneGroup(z) \in memberOf[c] => memberOf' = memberOf
          /\ Asks(c, "UnsubscribeFromZone", z) =>
                /\ ZoneGroup(z) \notin memberOf'[c]
                /\ Acked(c, "Unsubscribed", ZoneGroup(z))
                /\ OnlyGroupOf(c, ZoneGroup(z))
                /\ ZoneGroup(z) \notin memberOf[c] => memberOf' = memberOf
                /\ (asked = [c |-> c, method |-> "SubscribeToZone", id |-> z]
                      /\ FindZone(dbZones, z) # << >>) =>
                      /\ ZoneGroup(z) \in memberOf[c]
                      /\ memberOf'[c] = memberOf[c] \ {ZoneGroup(z)}]_vars

\* the first connection, subscribed to zone 2, has unsubscribed from zone 1,
\* which the second connection is subscribed to
C25_Witness ==
    /\ calls = MaxGroupCalls
    /\ asked = [c |-> 1, method |-> "UnsubscribeFromZone", id |-> 1]
    /\ memberOf[1] = {AllDronesGroup, ZoneGroup(2)}
    /\ memberOf[2] = {AllDronesGroup, ZoneGroup(1)}
    /\ Len(hubSent) = 1
    /\ hubSent[1].name = "Unsubscribed"


\* the Status column of a table
StatusesOf(rows) == [id \in DOMAIN rows |-> rows[id].Status]

\* the statuses a message of the hub reports are those of the table
ReportsStatuses(message, statuses) ==
    /\ message.name \in {"InitialDronesState", "FilteredDrones"} =>
          \A j \in 1..Len(message.payload) :
             message.payload[j].status = statuses[message.payload[j].id]
    /\ message.name = "InitialDronesState" =>
          Len(message.payload) = Cardinality(DOMAIN statuses)
    /\ message.name = "DroneStatistics" =>
          /\ message.payload.active
                = Cardinality({id \in DOMAIN statuses : statuses[id] = "Active"})
          /\ message.payload.inactive
                = Cardinality({id \in DOMAIN statuses :
                                  statuses[id] = "Inactive"})

\* no flush has been saved on the seeded store
NeverFlushed == \A id \in DOMAIN dbDrones : dbDrones[id].LastSeen = 0

Snapshotted(c) == hpc[c] \in {"zones", "stats", "idle"}

(***************************************************************************)
(* C30.  Whenever a tick pushes DronesUpdated, every connection the push   *)
(* reaches has already been sent InitialDronesState by its connect         *)
(* handler: no connection gets a batch of updates before its snapshot,     *)
(* however the handler and the tick are interleaved.                       *)
(***************************************************************************)
C30_SnapshotBeforeUpdates ==
    [][(TickStep /\ \E i \in 1..Len(sent') : sent'[i].name = "DronesUpdated")
          => \A c \in audience'.reached : Snapshotted(c)]_vars

=============================================================================
